---------------------------- MODULE Spec2Model ----------------------------
(***************************************************************************)
(* Model of aws/lambda/handler.py: the job submission pipeline             *)
(* (lambda_handler / handle_submit_job with its collaborators DynamoDB,    *)
(* KMS, SQS and CloudWatch) and the generic retry wrapper                  *)
(* retry_with_backoff.                                                     *)
(*                                                                         *)
(* Conventions.  A Python str is a sequence of one-character strings.  A   *)
(* JSON value is a record tagged with its Python type: t is one of "str",  *)
(* "bool", "num", "null", "dict", "list", its payload in a field named     *)
(* after the type (s, b, n; keys and v for a dict).  Fixed message texts   *)
(* are TLA+ strings; a formatted message is a record of the text and the   *)
(* values formatted into it.                                               *)
(***************************************************************************)
EXTENDS Integers, Sequences, FiniteSets, Bags, TLC

(***************************************************************************)
(* Bounds of the model.                                                    *)
(***************************************************************************)
NumProcs == 2          \* concurrent Lambda invocations
MaxRequests == 2       \* requests received in one behaviour
MaxCeiling == 1        \* largest configured MAX_CONCURRENT_JOBS explored
MaxRetries == 3        \* largest max_retries explored for retry_with_backoff
MaxInitialDelay == 2   \* largest initial_delay explored
MaxSubmissions == 3    \* submissions received in one behaviour of SpecAdmission

Procs == 1 .. NumProcs

None == [t |-> "null"]
Str(s) == [t |-> "str", s |-> s]
Bool(b) == [t |-> "bool", b |-> b]
Num(n) == [t |-> "num", n |-> n]
\* a dict keeps its keys in insertion order (keys) beside the mapping (v)
Dict(keys, d) == [t |-> "dict", keys |-> keys, v |-> d]
EmptyDict == Dict(<<>>, [k \in {} |-> None])
\* an object whose content is not looked at: only its serialized length counts
Opaque(n) == [t |-> "dict", keys |-> <<>>, v |-> [k \in {} |-> None], size |-> n]
Has(d, k) == k \in DOMAIN d.v

(***************************************************************************)
(* Python string helpers.                                                  *)
(***************************************************************************)
Whitespace == {" ", "\t", "\n"}

RECURSIVE lstrip(_)
lstrip(s) == IF s # <<>> /\ Head(s) \in Whitespace THEN lstrip(Tail(s)) ELSE s

RECURSIVE rstrip(_)
rstrip(s) ==
    IF s # <<>> /\ s[Len(s)] \in Whitespace
    THEN rstrip(SubSeq(s, 1, Len(s) - 1))
    ELSE s

strip(s) == rstrip(lstrip(s))

UpperToLower ==
    "A" :> "a" @@ "B" :> "b" @@ "C" :> "c" @@ "D" :> "d" @@ "E" :> "e"
    @@ "F" :> "f" @@ "G" :> "g" @@ "H" :> "h" @@ "I" :> "i" @@ "J" :> "j"
    @@ "K" :> "k" @@ "L" :> "l" @@ "M" :> "m" @@ "N" :> "n" @@ "O" :> "o"
    @@ "P" :> "p" @@ "Q" :> "q" @@ "R" :> "r" @@ "S" :> "s" @@ "T" :> "t"
    @@ "U" :> "u" @@ "V" :> "v" @@ "W" :> "w" @@ "X" :> "x" @@ "Y" :> "y"
    @@ "Z" :> "z"

lower(s) == [i \in 1 .. Len(s) |->
                IF s[i] \in DOMAIN UpperToLower THEN UpperToLower[s[i]] ELSE s[i]]

\* True iff the sequence pat occurs in s at position i
MatchAt(s, pat, i) ==
    /\ i + Len(pat) - 1 <= Len(s)
    /\ \A k \in 1 .. Len(pat) : s[i + k - 1] = pat[k]

Contains(s, pat) == \E i \in 1 .. Len(s) : MatchAt(s, pat, i)

\* Python truthiness of a JSON value ("not x" is its negation)
Truthy(x) ==
    CASE x.t = "null" -> FALSE
      [] x.t = "str"  -> x.s # <<>>
      [] x.t = "bool" -> x.b
      [] x.t = "num"  -> x.n # 0
      [] x.t = "dict" -> DOMAIN x.v # {}
      [] x.t = "list" -> x.l # <<>>

(***************************************************************************)
(* Module constants of handler.py.                                         *)
(***************************************************************************)
SUPPORTED_SCHEMA_VERSIONS == {<<"1", ".", "0">>}
MAX_JOB_SPEC_SIZE_BYTES == 15360
MAX_URL_LENGTH == 2048
MAX_COMMAND_LENGTH == 50
ALLOWED_COMMANDS ==
    { <<"i", "n", "i", "t">>,
      <<"v", "a", "l", "i", "d", "a", "t", "e">>,
      <<"s", "y", "n", "c">>,
      <<"s", "t", "a", "t", "u", "s">>,
      <<"v", "e", "r", "i", "f", "y">> }


(***************************************************************************)
(* urllib.parse.urlparse, as far as validate_postgresql_url uses it.       *)
(***************************************************************************)
LowerLetters ==
    {"a", "b", "c", "d", "e", "f", "g", "h", "i", "j", "k", "l", "m",
     "n", "o", "p", "q", "r", "s", "t", "u", "v", "w", "x", "y", "z"}
UpperLetters == DOMAIN UpperToLower
Letters == LowerLetters \cup UpperLetters
Digits == {"0", "1", "2", "3", "4", "5", "6", "7", "8", "9"}
WordChars == Letters \cup Digits \cup {"_"}          \* regex \w (ASCII part)
RegexSpace == {" ", "\t", "\n", "\r"}                \* regex \s (ASCII part)
SchemeChars == Letters \cup Digits \cup {"+", "-", "."}

\* str.find for a set of characters: first index whose character is in cs, 0 if none
FindAny(s, cs) ==
    IF \E i \in 1 .. Len(s) : s[i] \in cs
    THEN CHOOSE i \in 1 .. Len(s) :
            /\ s[i] \in cs
            /\ \A k \in 1 .. i - 1 : s[k] \notin cs
    ELSE 0

\* str.rfind for one character: last index, 0 if none
RFind(s, c) ==
    IF \E i \in 1 .. Len(s) : s[i] = c
    THEN CHOOSE i \in 1 .. Len(s) :
            /\ s[i] = c
            /\ \A k \in i + 1 .. Len(s) : s[k] # c
    ELSE 0

Count(s, c) == Cardinality({i \in 1 .. Len(s) : s[i] = c})

From(s, i) == SubSeq(s, i, Len(s))
Upto(s, i) == SubSeq(s, 1, i)

\* the characters urlsplit removes from anywhere in the URL
RemoveUnsafe(s) == SelectSeq(s, LAMBDA c : c \notin {"\t", "\n", "\r"})

RECURSIVE lstripSpace(_)
lstripSpace(s) == IF s # <<>> /\ Head(s) = " " THEN lstripSpace(Tail(s)) ELSE s

ValueError == [raised |-> "ValueError"]
Raised(x) == "raised" \in DOMAIN x

\* str.partition on the first character of cs: the part before it (all of s
\* if there is none), the part after it and the part from it on (both empty
\* if there is none)
BeforeAt(s, i) == IF i = 0 THEN s ELSE Upto(s, i - 1)
AfterAt(s, i) == IF i = 0 THEN <<>> ELSE From(s, i + 1)
FromAt(s, i) == IF i = 0 THEN <<>> ELSE From(s, i)
Before(s, cs) == BeforeAt(s, FindAny(s, cs))
After(s, cs) == AfterAt(s, FindAny(s, cs))
FromFirst(s, cs) == FromAt(s, FindAny(s, cs))

\* urlsplit: a scheme is a letter followed by scheme characters, up to ':'
HasSchemeAt(url, colon) ==
    /\ colon > 1
    /\ url[1] \in Letters
    /\ \A k \in 1 .. colon - 1 : url[k] \in SchemeChars
HasScheme(url) == HasSchemeAt(url, FindAny(url, {":"}))
SchemeOf(url) == IF HasScheme(url) THEN lower(Before(url, {":"})) ELSE <<>>
AfterScheme(url) == IF HasScheme(url) THEN After(url, {":"}) ELSE url

\* urlsplit: the netloc follows '//' and ends at the first of '/', '?', '#'
HasNetloc(url) == Len(url) >= 2 /\ url[1] = "/" /\ url[2] = "/"
NetlocOf(url) ==
    IF HasNetloc(url) THEN Before(From(url, 3), {"/", "?", "#"}) ELSE <<>>
AfterNetloc(url) ==
    IF HasNetloc(url) THEN FromFirst(From(url, 3), {"/", "?", "#"}) ELSE url

\* urlsplit: unbalanced brackets in the netloc raise ValueError
CheckBrackets(parsed) ==
    IF (Count(parsed.netloc, "[") > 0) # (Count(parsed.netloc, "]") > 0)
    THEN ValueError
    ELSE parsed

SplitQuery(scheme, netloc, url, fragment) ==
    CheckBrackets([scheme |-> scheme, netloc |-> netloc,
                   path |-> Before(url, {"?"}), query |-> After(url, {"?"}),
                   fragment |-> fragment])
SplitFragment(scheme, netloc, url) ==
    SplitQuery(scheme, netloc, Before(url, {"#"}), After(url, {"#"}))
SplitNetloc(scheme, url) == SplitFragment(scheme, NetlocOf(url), AfterNetloc(url))
SplitScheme(url) == SplitNetloc(SchemeOf(url), AfterScheme(url))

\* urlparse(url): a record of components, or ValueError
urlparse(url) == SplitScheme(RemoveUnsafe(lstripSpace(url)))

\* netloc.rpartition('@')[2]
HostInfo(netloc) == From(netloc, RFind(netloc, "@") + 1)

\* ParseResult._hostinfo: <<hostname, port>> as raw strings
Bracketed(rest) == << Before(rest, {"]"}), After(After(rest, {"]"}), {":"}) >>
SplitHostInfo(hostinfo) ==
    IF FindAny(hostinfo, {"["}) # 0
    THEN Bracketed(After(hostinfo, {"["}))
    ELSE << Before(hostinfo, {":"}), After(hostinfo, {":"}) >>
HostPort(netloc) == SplitHostInfo(HostInfo(netloc))

\* ParseResult.hostname: lower-cased host, <<>> standing for None
hostname(parsed) == lower(HostPort(parsed.netloc)[1])

DigitVal ==
    [c \in Digits |->
        CASE c = "0" -> 0 [] c = "1" -> 1 [] c = "2" -> 2 [] c = "3" -> 3
          [] c = "4" -> 4 [] c = "5" -> 5 [] c = "6" -> 6 [] c = "7" -> 7
          [] c = "8" -> 8 [] c = "9" -> 9]

RECURSIVE int(_)
int(s) == IF s = <<>> THEN 0
          ELSE 10 * int(SubSeq(s, 1, Len(s) - 1)) + DigitVal[s[Len(s)]]

\* ParseResult.port: [n |-> port], n = -1 standing for None; ValueError for
\* a port that is not a decimal number or lies outside 0..65535
PortOf(p) ==
    IF p = <<>> THEN [n |-> -1]
    ELSE IF \E i \in 1 .. Len(p) : p[i] \notin Digits THEN ValueError
    ELSE IF int(p) > 65535 THEN ValueError
    ELSE [n |-> int(p)]
port(parsed) == PortOf(HostPort(parsed.netloc)[2])

(***************************************************************************)
(* redact_url(url)                                                         *)
(***************************************************************************)
\* ParseResult._userinfo: the netloc before its last '@', split at the first
\* ':'; <<>> stands for None and for the empty string alike
UserInfo(netloc) ==
    IF Count(netloc, "@") > 0 THEN Upto(netloc, RFind(netloc, "@") - 1) ELSE <<>>
username(parsed) == Before(UserInfo(parsed.netloc), {":"})
password(parsed) == After(UserInfo(parsed.netloc), {":"})

\* str(n) for n >= 0
RECURSIVE str(_)
str(n) ==
    IF n < 10 THEN <<CHOOSE c \in Digits : DigitVal[c] = n>>
    ELSE str(n \div 10) \o str(n % 10)

\* the schemes of urllib.parse.uses_netloc other than the empty one
uses_netloc ==
    {<<"f", "t", "p">>, <<"h", "t", "t", "p">>, <<"g", "o", "p", "h", "e", "r">>,
     <<"n", "n", "t", "p">>, <<"t", "e", "l", "n", "e", "t">>, <<"i", "m", "a", "p">>,
     <<"w", "a", "i", "s">>, <<"f", "i", "l", "e">>, <<"m", "m", "s">>,
     <<"h", "t", "t", "p", "s">>, <<"s", "h", "t", "t", "p">>,
     <<"s", "n", "e", "w", "s">>, <<"p", "r", "o", "s", "p", "e", "r", "o">>,
     <<"r", "t", "s", "p">>, <<"r", "t", "s", "p", "s">>, <<"r", "t", "s", "p", "u">>,
     <<"r", "s", "y", "n", "c">>, <<"s", "v", "n">>,
     <<"s", "v", "n", "+", "s", "s", "h">>, <<"s", "f", "t", "p">>, <<"n", "f", "s">>,
     <<"g", "i", "t">>, <<"g", "i", "t", "+", "s", "s", "h">>, <<"w", "s">>,
     <<"w", "s", "s">>}

\* urlunparse((scheme, netloc, path, '', query, fragment)); a netloc of <<>>
\* stands for None
WithFragment(url, fragment) == IF fragment # <<>> THEN url \o <<"#">> \o fragment ELSE url
WithQuery(url, query) == IF query # <<>> THEN url \o <<"?">> \o query ELSE url
WithScheme(scheme, url) == IF scheme # <<>> THEN scheme \o <<":">> \o url ELSE url
WithNetloc(scheme, netloc, url) ==
    IF netloc # <<>> \/ (scheme \in uses_netloc /\ ~HasNetloc(url))
    THEN <<"/", "/">> \o netloc \o (IF url # <<>> /\ Head(url) # "/" THEN <<"/">> ELSE <<>>)
         \o url
    ELSE url
urlunparse(scheme, netloc, path, query, fragment) ==
    WithFragment(WithQuery(WithScheme(scheme, WithNetloc(scheme, netloc, path)), query),
                 fragment)

InvalidUrlText == <<"[", "i", "n", "v", "a", "l", "i", "d", " ", "U", "R", "L", "]">>
RedactedMarker ==
    <<" ", "(", "c", "r", "e", "d", "e", "n", "t", "i", "a", "l", "s", " ",
      "r", "e", "d", "a", "c", "t", "e", "d", ")">>

\* netloc = parsed.hostname, followed by ':port' if parsed.port is truthy;
\* a hostname of None is formatted as 'None'
HostText(host) == IF host = <<>> THEN <<"N", "o", "n", "e">> ELSE host
RedactedNetloc(host, p) ==
    IF p.n > 0 THEN HostText(host) \o <<":">> \o str(p.n) ELSE host

\* a redaction that keeps the authority as it was written
RebuildWithNetloc(parsed, p) ==
    IF Raised(p) THEN InvalidUrlText
    ELSE urlunparse(parsed.scheme, parsed.netloc, parsed.path, parsed.query,
                    parsed.fragment) \o RedactedMarker

\* the branch that rebuilds the URL; p is parsed.port
Rebuild(parsed, p) ==
    IF Raised(p) THEN InvalidUrlText
    ELSE urlunparse(parsed.scheme, RedactedNetloc(hostname(parsed), p), parsed.path,
                    parsed.query, parsed.fragment) \o RedactedMarker

Redact(url, parsed) ==
    IF Raised(parsed) THEN InvalidUrlText
    ELSE IF username(parsed) # <<>> \/ password(parsed) # <<>>
    THEN Rebuild(parsed, port(parsed))
    ELSE url

redact_url(url) == IF url = <<>> THEN url ELSE Redact(url, urlparse(url))

(***************************************************************************)
(* validate_postgresql_url(url): <<is_valid, error_message>>               *)
(***************************************************************************)
\* the backtick character (the lexer does not accept it inside a string)
Backtick == "BACKTICK"

\* re.search(r';\s*\w+', url)
SemicolonChain(url) ==
    \E i \in 1 .. Len(url) :
        /\ url[i] = ";"
        /\ \E j \in i + 1 .. Len(url) :
              /\ url[j] \in WordChars
              /\ \A k \in i + 1 .. j - 1 : url[k] \in RegexSpace

dangerous_patterns(url) ==
    \/ SemicolonChain(url)
    \/ Contains(url, <<"$", "(">>)
    \/ Contains(url, <<Backtick>>)
    \/ Contains(url, <<"|", "|">>)
    \/ Contains(url, <<"&", "&">>)

\* a dollar anchor also matches just before one trailing newline
DropFinalNewline(s) ==
    IF s # <<>> /\ s[Len(s)] = "\n" THEN Upto(s, Len(s) - 1) ELSE s

HostChars == Letters \cup Digits \cup {"-", "."}
\* re.match(r'^[a-zA-Z0-9]([a-zA-Z0-9\-\.]*[a-zA-Z0-9])?$', h)
HostnameFormatOk(h0) ==
    LET h == DropFinalNewline(h0)
    IN  /\ h # <<>>
        /\ h[1] \in Letters \cup Digits
        /\ h[Len(h)] \in Letters \cup Digits
        /\ \A i \in 1 .. Len(h) : h[i] \in HostChars

\* re.match(r'^[a-zA-Z0-9_\-]+$', d)
DbNameFormatOk(d0) ==
    LET d == DropFinalNewline(d0)
    IN  /\ d # <<>>
        /\ \A i \in 1 .. Len(d) : d[i] \in WordChars \cup {"-"}

RECURSIVE lstripSlash(_)
lstripSlash(s) == IF s # <<>> /\ Head(s) = "/" THEN lstripSlash(Tail(s)) ELSE s

S_postgresql == <<"p", "o", "s", "t", "g", "r", "e", "s", "q", "l">>
S_postgres == <<"p", "o", "s", "t", "g", "r", "e", "s">>

\* (is_valid, error_message); an error message is a record: its text (msg)
\* and the values formatted into it
NoError == [msg |-> "None"]
Msg(text) == [msg |-> text]
Ok == [is_valid |-> TRUE, error |-> NoError]
Rejected(reason) == [is_valid |-> FALSE, error |-> reason]

\* the checks on the parsed URL
ValidateParsed(parsed) ==
    IF Raised(parsed)
    THEN Rejected(Msg("Failed to parse URL"))
    ELSE IF parsed.scheme \notin {S_postgresql, S_postgres}
    THEN Rejected([msg |-> "Invalid scheme: (must be 'postgresql' or 'postgres')",
                   str |-> parsed.scheme])
    ELSE IF hostname(parsed) = <<>>
    THEN Rejected(Msg("URL must include a hostname"))
    ELSE IF Count(parsed.netloc, "@") > 1
    THEN Rejected(Msg("Invalid URL format: multiple @ signs"))
    ELSE IF ~HostnameFormatOk(hostname(parsed))
    THEN Rejected(Msg("Invalid hostname format"))
    ELSE IF Raised(port(parsed))
    THEN Rejected(Msg("Invalid port format"))
    ELSE IF port(parsed).n = 0
    THEN Rejected([msg |-> "Invalid port: (must be 1-65535)", n |-> 0])
    ELSE IF /\ lstripSlash(parsed.path) # <<>>
            /\ ~DbNameFormatOk(lstripSlash(parsed.path))
    THEN Rejected(Msg("Invalid database name format"))
    ELSE Ok

validate_postgresql_url(url) ==
    IF dangerous_patterns(url)
    THEN Rejected(Msg("URL contains potentially dangerous characters"))
    ELSE ValidateParsed(urlparse(url))


(***************************************************************************)
(* len(json.dumps(x).encode('utf-8')) for ASCII content                    *)
(***************************************************************************)
RECURSIVE NumDigits(_)
NumDigits(n) == IF n < 10 THEN 1 ELSE 1 + NumDigits(n \div 10)

RECURSIVE JsonSize(_)
RECURSIVE JsonItemsSize(_, _)
JsonItemsSize(d, ks) ==
    IF ks = {} THEN 0
    ELSE LET k == CHOOSE x \in ks : TRUE
         IN  Len(k) + 4 + JsonSize(d[k]) + JsonItemsSize(d, ks \ {k})

JsonSize(x) ==
    CASE x.t = "null" -> 4
      [] x.t = "bool" -> IF x.b THEN 4 ELSE 5
      [] x.t = "num"  -> IF x.n < 0 THEN 1 + NumDigits(-x.n) ELSE NumDigits(x.n)
      [] x.t = "str"  -> Len(x.s) + 2
      [] x.t = "list" -> 2
      [] x.t = "dict" ->
            IF "size" \in DOMAIN x THEN x.size
            ELSE 2 + JsonItemsSize(x.v, DOMAIN x.v)
                   + 2 * (IF DOMAIN x.v = {} THEN 0 ELSE Cardinality(DOMAIN x.v) - 1)

(***************************************************************************)
(* validate_job_spec(body): <<is_valid, error_message>>, body a dict       *)
(***************************************************************************)
required_fields == <<"command", "source_url", "target_url">>
allowed_option_keys == {"drop_existing", "enable_sync", "estimated_size_bytes"}

\* a check that takes a missing field for a field of the wrong type
RequiredFieldErrorTyped(body, field) ==
    IF ~Has(body, field) \/ body.v[field].t # "str"
    THEN [msg |-> "Field must be a string", field |-> field]
    ELSE IF strip(body.v[field].s) = <<>>
    THEN [msg |-> "Field cannot be empty", field |-> field]
    ELSE NoError

\* the check of one required field: NoError when the field passes
RequiredFieldError(body, field) ==
    IF ~Has(body, field)
    THEN [msg |-> "Missing required field: ", field |-> field]
    ELSE IF body.v[field].t # "str"
    THEN [msg |-> "Field must be a string", field |-> field]
    ELSE IF strip(body.v[field].s) = <<>>
    THEN [msg |-> "Field cannot be empty", field |-> field]
    ELSE NoError

\* the check of one URL field: NoError when the field passes
InvalidUrl(url_field, res) ==
    IF ~res.is_valid
    THEN [msg |-> "Invalid ", field |-> url_field, error |-> res.error]
    ELSE NoError
UrlError(url_field, url) ==
    IF Len(url) > MAX_URL_LENGTH
    THEN [msg |-> "too long: ", field |-> url_field, n |-> Len(url)]
    ELSE InvalidUrl(url_field, validate_postgresql_url(url))
UrlFieldError(body, url_field) == UrlError(url_field, body.v[url_field].s)

\* isinstance(x, (int, float)): a Python bool is an int
IsNumber(x) == x.t \in {"num", "bool"}
NumValue(x) == IF x.t = "bool" THEN (IF x.b THEN 1 ELSE 0) ELSE x.n

\* the check of one option: NoError when the option passes
OptionError(options, key) ==
    IF key \notin allowed_option_keys
    THEN [msg |-> "Unknown option: ", field |-> key]
    ELSE IF key \in {"drop_existing", "enable_sync"} /\ options.v[key].t # "bool"
    THEN [msg |-> "Option must be a boolean", field |-> key]
    ELSE IF key = "estimated_size_bytes" /\ ~IsNumber(options.v[key])
    THEN [msg |-> "Option must be a number", field |-> key]
    ELSE IF key = "estimated_size_bytes" /\ NumValue(options.v[key]) < 0
    THEN [msg |-> "Option must be non-negative", field |-> key]
    ELSE NoError

\* the first error each for loop reports, NoError if none
RECURSIVE FirstRequiredError(_, _)
FirstRequiredError(body, fields) ==
    IF fields = <<>> THEN NoError
    ELSE IF RequiredFieldError(body, Head(fields)) # NoError
    THEN RequiredFieldError(body, Head(fields))
    ELSE FirstRequiredError(body, Tail(fields))

RECURSIVE FirstUrlError(_, _)
FirstUrlError(body, fields) ==
    IF fields = <<>> THEN NoError
    ELSE IF UrlFieldError(body, Head(fields)) # NoError
    THEN UrlFieldError(body, Head(fields))
    ELSE FirstUrlError(body, Tail(fields))

RECURSIVE FirstOptionError(_, _)
FirstOptionError(options, keys) ==
    IF keys = <<>> THEN NoError
    ELSE IF OptionError(options, Head(keys)) # NoError
    THEN OptionError(options, Head(keys))
    ELSE FirstOptionError(options, Tail(keys))

command_of(body) == lower(strip(body.v["command"].s))

\* the checks of validate_job_spec, in the order of the code
CheckFilter(body) ==
    IF Has(body, "filter") /\ body.v["filter"].t # "dict"
    THEN Rejected(Msg("Field 'filter' must be an object"))
    ELSE Ok

CheckOptionKeys(body, optErr) ==
    IF optErr # NoError THEN Rejected(optErr) ELSE CheckFilter(body)

CheckOptions(body) ==
    IF ~Has(body, "options")
    THEN CheckFilter(body)
    ELSE IF body.v["options"].t # "dict"
    THEN Rejected(Msg("Field 'options' must be an object"))
    ELSE CheckOptionKeys(body, FirstOptionError(body.v["options"], body.v["options"].keys))

CheckUrls(body, urlErr) ==
    IF urlErr # NoError THEN Rejected(urlErr) ELSE CheckOptions(body)

CheckCommand(body, command) ==
    IF Len(command) > MAX_COMMAND_LENGTH
    THEN Rejected([msg |-> "Command too long: ", n |-> Len(command)])
    ELSE IF command \notin ALLOWED_COMMANDS
    THEN Rejected([msg |-> "Invalid command: ", str |-> command])
    ELSE CheckUrls(body, FirstUrlError(body, <<"source_url", "target_url">>))

CheckRequired(body, reqErr) ==
    IF reqErr # NoError
    THEN Rejected(reqErr)
    ELSE CheckCommand(body, command_of(body))

CheckSchemaVersion(body) ==
    IF ~Has(body, "schema_version") \/ ~Truthy(body.v["schema_version"])
    THEN Rejected([msg |-> "Missing required field: ", field |-> "schema_version"])
    ELSE IF \/ body.v["schema_version"].t # "str"
            \/ body.v["schema_version"].s \notin SUPPORTED_SCHEMA_VERSIONS
    THEN Rejected([msg |-> "Unsupported schema version: ",
                   json |-> body.v["schema_version"]])
    ELSE CheckRequired(body, FirstRequiredError(body, required_fields))

CheckSize(body, body_size) ==
    IF body_size > MAX_JOB_SPEC_SIZE_BYTES
    THEN Rejected([msg |-> "Job spec too large: ", n |-> body_size])
    ELSE CheckSchemaVersion(body)

\* a validation that looks at the filter before anything else
validate_job_spec_filter_first(body) ==
    IF ~CheckFilter(body).is_valid THEN CheckFilter(body)
    ELSE CheckSize(body, JsonSize(body))

validate_job_spec(body) == CheckSize(body, JsonSize(body))


(***************************************************************************)
(* State.                                                                  *)
(***************************************************************************)
VARIABLES
    env,            \* configuration read from the environment at import
    table,          \* DynamoDB table: job_id -> item
    queue,          \* SQS provisioning queue: the messages sent to it
    metrics,        \* CloudWatch: bag of the metric data accepted
    uuid_counter,   \* number of uuid.uuid4() values drawn so far
    requests,       \* number of requests received so far
    api_key_cache,  \* _api_key_cache of each Lambda container
    pc,             \* position of each container in lambda_handler
    local,          \* local variables of each running handler
    calls,          \* outcomes of the collaborator calls of each running handler
    returned,       \* the handler run that returned in the last step, if one
                    \* did: its container, its response, its calls, its locals
    retry,          \* state of one retry_with_backoff call
    call            \* the last call of a pure function: its arguments and result

vars == <<env, table, queue, metrics, uuid_counter, requests, api_key_cache,
          pc, local, calls, returned, retry, call>>

shared == <<table, queue, metrics>>

(***************************************************************************)
(* Requests the model draws from.                                          *)
(***************************************************************************)
S_1_0 == <<"1", ".", "0">>
S_init == <<"i", "n", "i", "t">>
S_Sync == <<" ", "S", "y", "n", "c">>
URL_A == S_postgres \o <<":", "/", "/", "u", ":", "p", "@", "h", "/", "a">>
URL_B == S_postgresql \o <<":", "/", "/", "h", "2">>
URL_C == S_postgres \o <<":", "/", "/", "u", ":", "q", "@", "h", "3", ":", "5", "/", "c">>

PlainSpec ==
    Dict(<<"schema_version", "command", "source_url", "target_url">>,
         [schema_version |-> Str(S_1_0), command |-> Str(S_init),
          source_url |-> Str(URL_A), target_url |-> Str(URL_B)])

OptionsSpec ==
    Dict(<<"schema_version", "command", "source_url", "target_url", "options", "filter">>,
         [schema_version |-> Str(S_1_0), command |-> Str(S_Sync),
          source_url |-> Str(URL_C), target_url |-> Str(URL_A),
          options |-> Dict(<<"estimated_size_bytes", "drop_existing">>,
                           [estimated_size_bytes |-> Num(5), drop_existing |-> Bool(TRUE)]),
          filter |-> Opaque(2)])

NoVersionSpec ==
    Dict(<<"command", "source_url", "target_url">>,
         [command |-> Str(S_init), source_url |-> Str(URL_A), target_url |-> Str(URL_B)])

\* a request that tries to pass a connection URL through the options
UrlInOptionsSpec ==
    Dict(<<"schema_version", "command", "source_url", "target_url", "options">>,
         [schema_version |-> Str(S_1_0), command |-> Str(S_init),
          source_url |-> Str(URL_A), target_url |-> Str(URL_B),
          options |-> Dict(<<"source_url">>, [source_url |-> Str(URL_A)])])

\* event['body']: a text that json.loads parses to value, or that it rejects
JsonText(value) == [wellformed |-> TRUE, value |-> value]
MalformedJson == [wellformed |-> FALSE]
RawBodies ==
    { MalformedJson, JsonText([t |-> "list", l |-> <<>>]) }
    \cup { JsonText(b) : b \in {PlainSpec, OptionsSpec, NoVersionSpec, UrlInOptionsSpec} }

StoredApiKey == "key"
ProvidedKeys == {"absent", "wrong", StoredApiKey}

JobIds == 1 .. 2 * MaxRequests
Paths == { [p |-> "/jobs"], [p |-> "/other"] }
         \cup { [p |-> "/jobs/", id |-> j] : j \in {1, 2} }
\* a body is drawn for the submissions only: no other handler reads it
Events ==
    { e \in [ httpMethod : {"POST", "GET"}, path : Paths,
              x_api_key : ProvidedKeys, body : RawBodies ] :
        \/ e.body = MalformedJson
        \/ e.httpMethod = "POST" /\ e.path.p = "/jobs" /\ e.x_api_key = StoredApiKey }

\* validate_job_spec on the JSON objects of RawBodies, computed once
Verdict ==
    [ b \in { r.value : r \in { x \in RawBodies : x.wellformed /\ x.value.t = "dict" } }
        |-> validate_job_spec(b) ]

\* every connection URL a request may carry, and what encryption makes of it
PlaintextUrls == {URL_A, URL_B, URL_C}

(***************************************************************************)
(* Collaborators.                                                          *)
(***************************************************************************)
\* kms.encrypt: the ciphertext blob of a plaintext under a key.  A ciphertext
\* is a string that no request can carry: the plaintext behind two symbols
\* that stand for the key and the cipher
kms_encrypt(key_id, plaintext) == <<"CiphertextBlob", key_id>> \o plaintext
b64encode(blob) == <<"base64">> \o blob

\* an encrypt_data that hands the plaintext back
encrypt_data_plain(plaintext) == plaintext

\* encrypt_data(plaintext) when kms.encrypt succeeds
encrypt_data(plaintext) == b64encode(kms_encrypt(env.KMS_KEY_ID, plaintext))

IsActive(item) == item.status \in {"provisioning", "running"}

\* the Count of the scan with the status filter
ScanCount == Cardinality({j \in DOMAIN table : IsActive(table[j])})

\* a count that fails closed: a failed scan reads as a full system
count_active_jobs_closed(scan_ok) ==
    IF scan_ok THEN ScanCount ELSE env.MAX_CONCURRENT_JOBS

\* a count that also sees the submissions admitted but not yet persisted
count_with_reservations(scan_ok) ==
    IF scan_ok THEN ScanCount + Cardinality({q \in Procs : pc[q] = "put"}) ELSE 0

\* count_active_jobs(): the scan's count, or 0 when the scan raises
count_active_jobs(scan_ok) == IF scan_ok THEN ScanCount ELSE 0

\* body.get(key, {})
GetOrEmpty(body, key) == IF Has(body, key) THEN body.v[key] ELSE EmptyDict

NoLocals == [k \in {} |-> 0]

Response(code, bodyRec) == [statusCode |-> code, body |-> bodyRec]
Error(code, text) == Response(code, [error |-> Msg(text)])
NoResponse == [statusCode |-> 0]
\* an exception that leaves lambda_handler: the invocation fails
Unhandled(exc) == [raised |-> exc]
Status(resp) == IF "statusCode" \in DOMAIN resp THEN resp.statusCode ELSE 0

NoReturn == [proc |-> 0, response |-> NoResponse, calls |-> {}, local |-> NoLocals]

\* the handler returns resp; log is the outcome of its collaborator calls so
\* far and loc its local variables
Finish(p, resp, log, loc) ==
    /\ pc' = [pc EXCEPT ![p] = "idle"]
    /\ calls' = [calls EXCEPT ![p] = {}]
    /\ local' = [local EXCEPT ![p] = NoLocals]
    /\ returned' = [proc |-> p, response |-> resp, calls |-> log, local |-> loc]

\* what is kept of the locals of a submission once it has returned
Kept(l) == [job_id |-> l.job_id]

\* the handler goes on to its next call of a shared collaborator
Goto(p, label, log, loc) ==
    /\ pc' = [pc EXCEPT ![p] = label]
    /\ returned' = NoReturn
    /\ calls' = [calls EXCEPT ![p] = log]
    /\ local' = [local EXCEPT ![p] = loc]

(***************************************************************************)
(* handle_get_job.                                                         *)
(***************************************************************************)
\* item.get(key, {}).get('S')
Attr(item, key) == IF key \in DOMAIN item THEN [S |-> item[key]] ELSE None

\* a view that copies every attribute of the item
job_status_whole(item) == [k \in DOMAIN item |-> [S |-> item[k]]]

\* the view built from an item
job_status(item) ==
    LET base == [job_id |-> [S |-> item.job_id],
                 trace_id |-> Attr(item, "trace_id"),
                 status |-> [S |-> item.status],
                 created_at |-> Attr(item, "created_at"),
                 started_at |-> Attr(item, "started_at"),
                 completed_at |-> Attr(item, "completed_at"),
                 error |-> Attr(item, "error")]
        progress == IF "progress" \in DOMAIN item
                    THEN [progress |-> [S |-> item.progress]]
                    ELSE [k \in {} |-> None]
        log_url == IF "log_group" \in DOMAIN item /\ "log_stream" \in DOMAIN item
                   THEN [log_url |-> [S |-> <<item.log_group, item.log_stream>>]]
                   ELSE [k \in {} |-> None]
    IN  base @@ progress @@ log_url

handle_get_job(p, job_id, log) ==
    \E get_ok \in BOOLEAN :
        /\ IF ~get_ok
           THEN Finish(p, Error(500, "Database error"), log \cup {"get_failed"}, NoLocals)
           ELSE IF job_id \notin DOMAIN table
           THEN Finish(p, Error(404, "Job not found"), log \cup {"get_ok"}, NoLocals)
           ELSE Finish(p, Response(200, job_status(table[job_id])),
                       log \cup {"get_ok"}, NoLocals)
        /\ UNCHANGED uuid_counter

(***************************************************************************)
(* handle_submit_job, from the admission check to the generation of the    *)
(* ids: the scan is its only access to shared state.                       *)
(***************************************************************************)
\* a gate that rejects only above the ceiling
RateLimitedAbove(active_jobs) == active_jobs > env.MAX_CONCURRENT_JOBS

\* a gate that admits every submission
RateLimitedNever(active_jobs) == FALSE

\* the admission gate
RateLimited(active_jobs) == active_jobs >= env.MAX_CONCURRENT_JOBS

\* a handler that parses the body before it looks at the active count
StopsAtParseFirst(active_jobs, raw) ==
    IF ~raw.wellformed THEN "json"
    ELSE IF RateLimited(active_jobs) THEN "gate"
    ELSE IF raw.value.t # "dict" THEN "body.get"
    ELSE IF ~Verdict[raw.value].is_valid THEN "spec"
    ELSE "none"

\* the first of the checks of handle_submit_job that stops the submission:
\* the admission gate, json.loads, body.get inside validate_job_spec (which
\* raises AttributeError for a body that is no object), the validation
StopsAt(active_jobs, raw) ==
    IF RateLimited(active_jobs) THEN "gate"
    ELSE IF ~raw.wellformed THEN "json"
    ELSE IF raw.value.t # "dict" THEN "body.get"
    ELSE IF ~Verdict[raw.value].is_valid THEN "spec"
    ELSE "none"

\* a response that hides the reason of the validator
StoppedUnexplained(check, raw) ==
    CASE check = "gate" -> Error(429, "Maximum concurrent jobs limit reached")
      [] check = "json" -> Error(400, "Invalid JSON")
      [] check = "body.get" -> Error(500, "Internal server error")
      [] check = "spec" -> Error(400, "Invalid job spec")

\* the response of a submission that a check stops
Stopped(check, raw) ==
    CASE check = "gate" -> Error(429, "Maximum concurrent jobs limit reached")
      [] check = "json" -> Error(400, "Invalid JSON")
      [] check = "body.get" -> Error(500, "Internal server error")
      [] check = "spec" -> Response(400, [error |-> Verdict[raw.value].error])

\* the calls made up to the check that stops the submission
StoppedLog(check) ==
    CASE check = "gate" -> {}
      [] check \in {"json", "body.get"} -> {"parsed"}
      [] check \in {"spec", "none"} -> {"parsed", "validated"}

handle_submit_job(p, event, log0) ==
    \E scan_ok \in BOOLEAN :
        LET active_jobs == count_active_jobs(scan_ok)
            log == log0 \cup {IF scan_ok THEN "scan_ok" ELSE "scan_failed"}
            check == StopsAt(active_jobs, event.body)
        IN  IF check # "none"
            THEN /\ Finish(p, Stopped(check, event.body), log \cup StoppedLog(check),
                           [active_jobs |-> active_jobs, event_body |-> event.body])
                 /\ UNCHANGED uuid_counter
            ELSE /\ Goto(p, "put", log \cup StoppedLog(check),
                         [active_jobs |-> active_jobs, body |-> event.body.value,
                          job_id |-> uuid_counter + 1,
                          trace_id |-> uuid_counter + 2])
                 /\ uuid_counter' = uuid_counter + 2

(***************************************************************************)
(* get_api_key: the cached key, or the key fetched from the parameter      *)
(* store; fetch says whether ssm.get_parameter was called and how it ended *)
(***************************************************************************)
\* a get_api_key that reads the parameter store on every call
get_api_key_uncached(cache, ssm_ok) ==
    IF env.API_KEY_PARAMETER_NAME = "None"
    THEN [raised |-> "ValueError", fetch |-> "none"]
    ELSE [key |-> StoredApiKey, fetch |-> "ok"]

get_api_key(cache, ssm_ok) ==
    IF cache # "None"
    THEN [key |-> cache, fetch |-> "none"]
    ELSE IF env.API_KEY_PARAMETER_NAME = "None"
    THEN [raised |-> "ValueError", fetch |-> "none"]
    ELSE IF ssm_ok
    THEN [key |-> StoredApiKey, fetch |-> "ok"]
    ELSE [raised |-> "get_parameter", fetch |-> "failed"]

\* the collaborator calls of get_api_key
FetchLog(expected) ==
    IF expected.fetch = "ok" THEN {"ssm_ok"}
    ELSE IF Raised(expected) THEN {"ssm_failed"}
    ELSE {}

(***************************************************************************)
(* lambda_handler: authentication, routing and the routed handler up to    *)
(* its first access to shared state.                                       *)
(***************************************************************************)
\* limit bounds the number of requests of a behaviour
Handle(p, events, limit) ==
    /\ pc[p] = "idle"
    /\ requests < limit
    /\ requests' = requests + 1
    /\ \A q \in Procs : q < p => ~(pc[q] = "idle" /\ api_key_cache[q] = api_key_cache[p])
    /\ \E event \in events, ssm_ok \in BOOLEAN :
          LET expected == get_api_key(api_key_cache[p], ssm_ok)
              log == FetchLog(expected)
              auth == [x_api_key |-> event.x_api_key]
          IN  \* an outcome is drawn only for a call that is made
              /\ (event.x_api_key = "absent" \/ expected.fetch = "none") => ssm_ok
              /\ IF event.x_api_key = "absent"
                 THEN \* validate_api_key: "Missing x-api-key header"
                      /\ Finish(p, Error(401, "Unauthorized"), {}, auth)
                      /\ UNCHANGED <<api_key_cache, uuid_counter>>
                 ELSE IF Raised(expected)
                 THEN \* get_api_key raises, outside the try of lambda_handler
                      /\ Finish(p, Unhandled("get_api_key"), log, auth)
                      /\ UNCHANGED <<api_key_cache, uuid_counter>>
                 ELSE /\ api_key_cache' = [api_key_cache EXCEPT ![p] = expected.key]
                      /\ IF event.x_api_key # expected.key
                         THEN /\ Finish(p, Error(401, "Unauthorized"), log, auth)
                              /\ UNCHANGED uuid_counter
                         ELSE IF event.httpMethod = "POST" /\ event.path.p = "/jobs"
                         THEN handle_submit_job(p, event, log)
                         ELSE IF event.httpMethod = "GET" /\ event.path.p = "/jobs/"
                         THEN handle_get_job(p, event.path.id, log)
                         ELSE /\ Finish(p, Error(404, "Not found"), log, NoLocals)
                              /\ UNCHANGED uuid_counter
    /\ UNCHANGED <<env, shared, retry, call>>

LambdaHandler(p, events) == Handle(p, events, MaxRequests)

(***************************************************************************)
(* handle_submit_job, continued: one action for each later call of a       *)
(* shared collaborator, with the local steps that lead to it.              *)
(***************************************************************************)
\* the Item of the put_item call
Item(l, encrypted_source, encrypted_target) ==
    [job_id |-> l.job_id,
     trace_id |-> l.trace_id,
     schema_version |-> l.body.v["schema_version"].s,
     status |-> "provisioning",
     command |-> l.body.v["command"].s,
     source_url_encrypted |-> encrypted_source,
     target_url_encrypted |-> encrypted_target,
     filter |-> GetOrEmpty(l.body, "filter"),
     options |-> GetOrEmpty(l.body, "options"),
     created_at |-> "utcnow",
     ttl |-> "now + 30 days"]

\* a write that does not wait for the encryption of the target URL
PersistedAfterSource(tbl, l, source_ok, target_ok, put_ok) ==
    IF env.KMS_KEY_ID # "None" /\ source_ok /\ put_ok
    THEN (l.job_id :> [job_id |-> l.job_id, status |-> "provisioning"]) @@ tbl
    ELSE tbl

\* a write that reports success and stores nothing
PersistedNever(tbl, l, source_ok, target_ok, put_ok) == tbl

\* the table after the two encrypt_data calls and put_item: nothing is written
\* unless both encryptions and the write succeed
Persisted(tbl, l, source_ok, target_ok, put_ok) ==
    IF env.KMS_KEY_ID # "None" /\ source_ok /\ target_ok /\ put_ok
    THEN (l.job_id :> Item(l, encrypt_data(l.body.v["source_url"].s),
                           encrypt_data(l.body.v["target_url"].s))) @@ tbl
    ELSE tbl

\* the two encrypt_data calls, then put_item
PutItem(p) ==
    /\ pc[p] = "put"
    /\ \E source_ok, target_ok, put_ok \in BOOLEAN :
          \* an outcome is drawn only for a call that is made
          /\ ~source_ok => target_ok
          /\ ~(source_ok /\ target_ok) => put_ok
          /\ table' = Persisted(table, local[p], source_ok, target_ok, put_ok)
          /\ LET l == local[p]
             IN  IF env.KMS_KEY_ID = "None" \/ ~source_ok
                 THEN /\ Finish(p, Error(500, "Failed to encrypt credentials"),
                                calls[p] \cup {"encrypt_source_failed"}, Kept(l))
                 ELSE IF ~target_ok
                 THEN /\ Finish(p, Error(500, "Failed to encrypt credentials"),
                                calls[p] \cup {"encrypt_source_ok", "encrypt_target_failed"},
                                Kept(l))
                 ELSE IF ~put_ok
                 THEN /\ Finish(p, Error(500, "Failed to create job record"),
                                calls[p] \cup {"encrypt_source_ok", "encrypt_target_ok",
                                               "put_failed"}, Kept(l))
                 ELSE /\ Goto(p, "send",
                              calls[p] \cup {"encrypt_source_ok", "encrypt_target_ok",
                                             "put_ok"}, l)
    /\ UNCHANGED <<env, queue, metrics, uuid_counter, requests, api_key_cache, retry, call>>

\* a hand-off that forwards the whole request body
message_body_whole(l) ==
    [job_id |-> l.job_id, trace_id |-> l.trace_id, options |-> l.body]

\* the hand-off message
message_body(l) ==
    [job_id |-> l.job_id,
     trace_id |-> l.trace_id,
     options |-> GetOrEmpty(l.body, "options")]

\* put_metric('JobSubmitted', dimensions=[Command]): the metric data sent
JobSubmitted(l) ==
    [MetricName |-> "JobSubmitted", Value |-> 1, Unit |-> "Count",
     Dimensions |-> <<[Name |-> "Command", Value |-> l.body.v["command"].s]>>]

\* a put_metric whose exception reaches the try block around it
TryCompletesWithMetric(send_ok, metric_ok) == send_ok /\ metric_ok

\* whether the try block around send_message and put_metric completes:
\* put_metric catches its own exceptions, so send_message alone decides
TryCompletes(send_ok, metric_ok) == send_ok

\* send_message, and put_metric after a successful send
SendMessage(p) ==
    /\ pc[p] = "send"
    /\ \E send_ok, metric_ok \in BOOLEAN :
          \* an outcome is drawn only for a call that is made
          /\ ~send_ok => metric_ok
          /\ queue' = IF send_ok THEN queue \cup {message_body(local[p])} ELSE queue
          /\ metrics' = IF send_ok /\ metric_ok
                        THEN metrics (+) SetToBag({JobSubmitted(local[p])})
                        ELSE metrics
          /\ LET log == calls[p]
                        \cup (IF send_ok
                              THEN {"send_ok",
                                    IF metric_ok THEN "metric_ok" ELSE "metric_failed"}
                              ELSE {"send_failed"})
             IN  IF TryCompletes(send_ok, metric_ok)
                 THEN Finish(p, Response(201, [job_id |-> local[p].job_id,
                                               trace_id |-> local[p].trace_id,
                                               status |-> "provisioning"]),
                             log, Kept(local[p]))
                 ELSE Goto(p, "update", log, local[p])
    /\ UNCHANGED <<env, table, uuid_counter, requests, api_key_cache, retry, call>>

\* update_item SET status, error: creates the item when there is none
MarkFailed(tbl, job_id) ==
    LET old == IF job_id \in DOMAIN tbl THEN tbl[job_id] ELSE [job_id |-> job_id]
    IN  (job_id :> ([status |-> "failed", error |-> "Failed to enqueue job"] @@ old))
        @@ tbl

\* the compensating update_item of the except branch
UpdateItem(p) ==
    /\ pc[p] = "update"
    /\ \E update_ok \in BOOLEAN :
          IF update_ok
          THEN /\ table' = MarkFailed(table, local[p].job_id)
               /\ Finish(p, Error(500, "Failed to enqueue job"),
                         calls[p] \cup {"update_ok"}, Kept(local[p]))
          ELSE \* update_item raises inside the except branch: the exception
               \* leaves handle_submit_job and is caught by lambda_handler
               /\ Finish(p, Error(500, "Internal server error"),
                         calls[p] \cup {"update_failed"}, Kept(local[p]))
               /\ UNCHANGED table
    /\ UNCHANGED <<env, queue, metrics, uuid_counter, requests, api_key_cache, retry, call>>

(***************************************************************************)
(* The queue consumer and the worker, which move a job on.                 *)
(***************************************************************************)
WorkerStart(j) ==
    /\ j \in DOMAIN table
    /\ table[j].status = "provisioning"
    /\ \E m \in queue : m.job_id = j
    /\ table' = [table EXCEPT ![j] =
                    [status |-> "running", started_at |-> "utcnow",
                     progress |-> "progress", log_group |-> "group",
                     log_stream |-> "stream"] @@ @]
    /\ returned' = NoReturn
    /\ UNCHANGED <<env, queue, metrics, uuid_counter, requests, api_key_cache, pc, local,
                   calls, retry, call>>

WorkerFinish(j) ==
    /\ j \in DOMAIN table
    /\ table[j].status = "running"
    /\ \E ok \in BOOLEAN :
          table' = [table EXCEPT ![j] =
                      (IF ok THEN [status |-> "completed", completed_at |-> "utcnow"]
                       ELSE [status |-> "failed", completed_at |-> "utcnow",
                             error |-> "worker failed"]) @@ @]
    /\ returned' = NoReturn
    /\ UNCHANGED <<env, queue, metrics, uuid_counter, requests, api_key_cache, pc, local,
                   calls, retry, call>>

(***************************************************************************)
(* The submission pipeline.                                                *)
(***************************************************************************)
RetryIdle == [pc |-> "idle"]

Environments ==
    [ MAX_CONCURRENT_JOBS : 0 .. MaxCeiling,
      KMS_KEY_ID : {"None", "key-id"},
      API_KEY_PARAMETER_NAME : {"None", "/api/key"},
      WORKER_INSTANCE_TYPE : {"c5.2xlarge"} ]

\* no pure function has been called
NoCall == [fn |-> "None"]

InitHandlers ==
    /\ table = [j \in {} |-> NoLocals]
    /\ queue = {}
    /\ metrics = EmptyBag
    /\ uuid_counter = 0
    /\ requests = 0
    /\ api_key_cache = [p \in Procs |-> "None"]
    /\ pc = [p \in Procs |-> "idle"]
    /\ local = [p \in Procs |-> NoLocals]
    /\ calls = [p \in Procs |-> {}]
    /\ returned = NoReturn
    /\ call = NoCall

Init ==
    /\ env \in Environments
    /\ InitHandlers
    /\ retry = RetryIdle

\* the authenticated submissions
Submissions ==
    { e \in Events : e.httpMethod = "POST" /\ e.path.p = "/jobs"
                      /\ e.x_api_key = StoredApiKey }

Next ==
    \/ \E p \in Procs : LambdaHandler(p, Submissions)
    \/ \E p \in Procs : PutItem(p)
    \/ \E p \in Procs : SendMessage(p)
    \/ \E p \in Procs : UpdateItem(p)
    \/ \E j \in JobIds : WorkerStart(j)
    \/ \E j \in JobIds : WorkerFinish(j)

Spec == Init /\ [][Next]_vars

\* every request: any method, path and key
NextApi ==
    \/ \E p \in Procs : LambdaHandler(p, Events)
    \/ \E p \in Procs : PutItem(p)
    \/ \E p \in Procs : SendMessage(p)
    \/ \E p \in Procs : UpdateItem(p)
    \/ \E j \in JobIds : WorkerStart(j)
    \/ \E j \in JobIds : WorkerFinish(j)

SpecApi == Init /\ [][NextApi]_vars


(***************************************************************************)
(* Admission under a scan that never fails: authenticated submissions of   *)
(* one valid job spec, more of them than the ceiling and the containers    *)
(* together can admit.                                                     *)
(***************************************************************************)
ValidSubmission ==
    [httpMethod |-> "POST", path |-> [p |-> "/jobs"], x_api_key |-> StoredApiKey,
     body |-> JsonText(PlainSpec)]

\* no request of the state, running or just answered, has seen its scan fail
NoScanFailure ==
    /\ "scan_failed" \notin returned.calls
    /\ \A p \in Procs : "scan_failed" \notin calls[p]

\* a submission whose scan succeeds
SubmitScanned(p) == Handle(p, {ValidSubmission}, MaxSubmissions) /\ NoScanFailure'

NextAdmission ==
    \/ \E p \in Procs : SubmitScanned(p)
    \/ \E p \in Procs : PutItem(p)
    \/ \E p \in Procs : SendMessage(p)
    \/ \E p \in Procs : UpdateItem(p)
    \/ \E j \in 1 .. 2 * MaxSubmissions : WorkerStart(j)
    \/ \E j \in 1 .. 2 * MaxSubmissions : WorkerFinish(j)

SpecAdmission == Init /\ [][NextAdmission]_vars

(***************************************************************************)
(* retry_with_backoff(func, max_retries, initial_delay).                   *)
(***************************************************************************)
retryable_errors ==
    {"RequestLimitExceeded", "InsufficientInstanceCapacity", "InternalError",
     "ServiceUnavailable", "Throttling"}

\* the error codes func may fail with: the retryable ones, another code, and
\* a ClientError whose response carries no code
ErrorCodes == retryable_errors \cup {"UnauthorizedOperation", ""}

\* what one invocation of func does: it returns, raises a ClientError, or
\* raises an exception that is no ClientError
Outcomes ==
    {[kind |-> "return"], [kind |-> "Exception"]}
    \cup {[kind |-> "ClientError", code |-> c] : c \in ErrorCodes}

\* the exception object raised by the invocation number n
Raise(outcome, n) == [exc |-> outcome, invocation |-> n]
NoException == [exc |-> [kind |-> "None"], invocation |-> 0]
TypeError == [exc |-> [kind |-> "TypeError"], invocation |-> 0]

\* a classification that takes every ClientError for transient
IsClientError(outcome) == outcome.kind = "ClientError"

IsTransient(outcome) == outcome.kind = "ClientError" /\ outcome.code \in retryable_errors

\* the state at the head of the for loop
RetryStart(caller, max_retries, initial_delay) ==
    [pc |-> "loop", caller |-> caller,
     max_retries |-> max_retries, initial_delay |-> initial_delay,
     attempt |-> 0, delay |-> initial_delay, last_exception |-> NoException,
     invocations |-> <<>>, sleeps |-> <<>>]

\* the loop is over: raise last_exception (raising None is a TypeError)
Exhausted(r) ==
    [r EXCEPT !.pc = "raised"]
    @@ [raised |-> IF r.last_exception = NoException THEN TypeError
                   ELSE r.last_exception]

\* a loop with one iteration too many
LoopContinuesOnceMore(attempt, max_retries) == attempt < max_retries + 1

\* for attempt in range(max_retries): whether the loop has an iteration left
LoopContinues(attempt, max_retries) == attempt < max_retries

\* a call of retry_with_backoff, up to the first invocation of func
RetryCall ==
    /\ retry.pc = "idle"
    /\ \E max_retries \in 0 .. MaxRetries, initial_delay \in 1 .. MaxInitialDelay :
          LET r == RetryStart("any", max_retries, initial_delay)
          IN  retry' = IF LoopContinues(0, max_retries) THEN r ELSE Exhausted(r)
    /\ UNCHANGED <<env, shared, uuid_counter, requests, api_key_cache, pc, local,
                   calls, returned, call>>

PROVISION_MAX_RETRIES == 3
PROVISION_INITIAL_DELAY == 2

(***************************************************************************)
(* choose_instance_type and provision_worker.  A size in bytes exceeds the *)
(* integers of the checker, so it is kept as gib * 1024**3 + rem with      *)
(* 0 <= rem < 1024**3; size_gb = bytes / 1024**3 is then gib + rem / GiB,  *)
(* and size_gb < n holds for an integer n exactly when gib < n.            *)
(***************************************************************************)
GiB == 1073741824
Bytes(gib, rem) == [t |-> "num", gib |-> gib, rem |-> rem]
ZeroBytes == Bytes(0, 0)

\* a step function whose boundaries belong to the lower band
choose_instance_type_inclusive(estimated_size_bytes) ==
    LET over(n) == \/ estimated_size_bytes.gib > n
                   \/ estimated_size_bytes.gib = n /\ estimated_size_bytes.rem > 0
    IN  IF ~over(10) THEN "t3.medium"
        ELSE IF ~over(100) THEN "c5.large"
        ELSE IF ~over(1024) THEN "c5.2xlarge"
        ELSE "c5.4xlarge"

choose_instance_type(estimated_size_bytes) ==
    IF estimated_size_bytes.gib < 10 THEN "t3.medium"
    ELSE IF estimated_size_bytes.gib < 100 THEN "c5.large"
    ELSE IF estimated_size_bytes.gib < 1024 THEN "c5.2xlarge"
    ELSE "c5.4xlarge"

\* options.get('estimated_size_bytes', 0)
estimated_size(options) ==
    IF Has(options, "estimated_size_bytes") THEN options.v.estimated_size_bytes
    ELSE ZeroBytes

\* a provisioning that sizes the instance whatever the estimate
AnyEstimate(size) == TRUE

\* estimated_size > 0
Positive(size) == size.gib > 0 \/ (size.gib = 0 /\ size.rem > 0)

instance_type(options) ==
    IF Positive(estimated_size(options))
    THEN choose_instance_type(estimated_size(options))
    ELSE env.WORKER_INSTANCE_TYPE

\* a startup script that is also handed the options
user_data_with_options(job_id, options) ==
    [script |-> "/opt/seren-replicator/worker.sh", args |-> <<job_id, options>>]

\* the user data script, built in the scope of job_id and options: it runs
\* worker.sh with the job id as its one argument
user_data(job_id, options) ==
    [script |-> "/opt/seren-replicator/worker.sh", args |-> <<job_id>>]

\* the ec2.run_instances request of launch_instance
launch_instance(job_id, options) ==
    [ImageId |-> "WORKER_AMI_ID",
     InstanceType |-> instance_type(options),
     IamInstanceProfile |-> "WORKER_IAM_ROLE",
     UserData |-> user_data(job_id, options),
     Tags |-> [Name |-> <<"seren-replication-", job_id>>, JobId |-> job_id,
               ManagedBy |-> "seren-replication-system"]]

\* the options provision_worker is called with: none, size hints at and
\* around the band boundaries, and options that carry a connection URL
SizeHints ==
    {Bytes(0, 0), Bytes(0, 1), Bytes(9, GiB - 1), Bytes(10, 0), Bytes(99, GiB - 1),
     Bytes(100, 0), Bytes(500, 0), Bytes(1023, GiB - 1), Bytes(1024, 0)}
ProvisionOptions ==
    {EmptyDict,
     Dict(<<"source_url">>, [source_url |-> Str(URL_A)]),
     Dict(<<"source_url", "estimated_size_bytes">>,
          [source_url |-> Str(URL_A), estimated_size_bytes |-> Bytes(500, 0)])}
    \cup {Dict(<<"estimated_size_bytes">>, [estimated_size_bytes |-> s]) : s \in SizeHints}

\* provision_worker(job_id, options), up to the first launch_instance; every
\* invocation of the retry loop sends the same request
ProvisionWorker ==
    /\ retry.pc = "idle"
    /\ \E job_id \in 1 .. NumProcs, options \in ProvisionOptions :
          retry' = RetryStart("provision_worker", PROVISION_MAX_RETRIES,
                              PROVISION_INITIAL_DELAY)
                   @@ [job_id |-> job_id, options |-> options,
                       request |-> launch_instance(job_id, options)]
    /\ UNCHANGED <<env, shared, uuid_counter, requests, api_key_cache, pc, local,
                   calls, returned, call>>

\* a loop that also sleeps after its last attempt
SleepsAfterEvery(attempt, max_retries) == attempt < max_retries

\* whether the loop sleeps after a transient failure of this attempt
SleepsAfter(attempt, max_retries) == attempt < max_retries - 1

\* the except branch for a transient ClientError e
AfterTransient(r, e) ==
    LET slept == [r EXCEPT !.last_exception = e,
                           !.attempt = r.attempt + 1,
                           !.sleeps = IF SleepsAfter(r.attempt, r.max_retries)
                                      THEN Append(r.sleeps, r.delay) ELSE r.sleeps,
                           !.delay = IF SleepsAfter(r.attempt, r.max_retries)
                                     THEN 2 * r.delay ELSE r.delay]
    IN  IF LoopContinues(slept.attempt, r.max_retries) THEN slept ELSE Exhausted(slept)

\* one iteration of the for loop, with what follows the loop after the last
RetryAttempt ==
    /\ retry.pc = "loop"
    /\ LoopContinues(retry.attempt, retry.max_retries)
    /\ \E outcome \in Outcomes :
          LET r == [retry EXCEPT !.invocations = Append(retry.invocations, outcome)]
              e == Raise(outcome, Len(r.invocations))
          IN  retry' =
                IF outcome.kind = "return"
                THEN [r EXCEPT !.pc = "returned"] @@ [result |-> Len(r.invocations)]
                ELSE IF outcome.kind # "ClientError"
                THEN \* not caught by "except ClientError"
                     [r EXCEPT !.pc = "raised"] @@ [raised |-> e]
                ELSE IF ~IsTransient(outcome)
                THEN [r EXCEPT !.pc = "raised", !.last_exception = e] @@ [raised |-> e]
                ELSE AfterTransient(r, e)
    /\ UNCHANGED <<env, shared, uuid_counter, requests, api_key_cache, pc, local,
                   calls, returned, call>>

InitRetry ==
    /\ env \in [MAX_CONCURRENT_JOBS : {MaxCeiling}, KMS_KEY_ID : {"key-id"},
                API_KEY_PARAMETER_NAME : {"/api/key"},
                WORKER_INSTANCE_TYPE : {"c5.2xlarge", "m5.large"}]
    /\ InitHandlers
    /\ retry = RetryIdle

NextRetry ==
    \/ RetryCall
    \/ ProvisionWorker
    \/ RetryAttempt

SpecRetry == InitRetry /\ [][NextRetry]_vars


(***************************************************************************)
(* Fairness for retry_with_backoff: an invocation of func returns or       *)
(* raises, and the loop then goes on.                                      *)
(***************************************************************************)
FairSpecRetry == SpecRetry /\ WF_vars(RetryAttempt)

(***************************************************************************)
(* Calls of the pure functions.  The arguments are drawn from the sets     *)
(* below; a call leaves its arguments and its result in the variable call. *)
(* The calls do not depend on each other: a behaviour makes one.           *)
(***************************************************************************)
\* estimated sizes at, next to and away from the band boundaries
Sizes ==
    {Bytes(gib, rem) : gib \in {-1, 0, 1, 9, 10, 11, 99, 100, 101, 500, 1023, 1024,
                                1025, 2000},
                       rem \in {0, 1, GiB - 1}}

\* job specs: each field is absent or takes one of a few values, so that a
\* spec can break several rules at once
Absent == [t |-> "absent"]
SpecKeys == <<"schema_version", "command", "source_url", "target_url", "options", "filter">>
Present(fields, k) == fields[k] # Absent
MakeSpec(fields) ==
    Dict(SelectSeq(SpecKeys, LAMBDA k : Present(fields, k)),
         [k \in {x \in DOMAIN fields : Present(fields, x)} |-> fields[k]])
LongCommand == [i \in 1 .. MAX_COMMAND_LENGTH + 1 |-> "x"]
JobSpecs ==
    {MakeSpec(f) : f \in
        [schema_version : {Absent, Str(S_1_0), Str(<<"2">>), Str(<<>>)},
         command : {Absent, Str(S_init), Str(<<"r", "m">>), Str(<<" ">>), Num(1),
                    Str(LongCommand)},
         source_url : {Absent, Str(URL_A), Str(<<"x">>)},
         target_url : {Absent, Str(URL_B), Str(<<"x">>)},
         options : {Absent, Str(<<"o">>), Dict(<<"shell">>, [shell |-> Bool(TRUE)]),
                    Dict(<<"estimated_size_bytes">>, [estimated_size_bytes |-> Num(5)]),
                    Dict(<<"estimated_size_bytes">>, [estimated_size_bytes |-> Num(-1)]),
                    Dict(<<"estimated_size_bytes">>, [estimated_size_bytes |-> Bool(TRUE)]),
                    Dict(<<"estimated_size_bytes">>,
                         [estimated_size_bytes |-> Str(<<"5">>)]),
                    Dict(<<"estimated_size_bytes">>, [estimated_size_bytes |-> None]),
                    Dict(<<"drop_existing">>, [drop_existing |-> Num(1)]),
                    Dict(<<"drop_existing", "enable_sync">>,
                         [drop_existing |-> Bool(TRUE), enable_sync |-> Bool(FALSE)]),
                    Opaque(MAX_JOB_SPEC_SIZE_BYTES)},
         filter : {Absent, Str(<<"f">>), EmptyDict}]}

\* URLs: a prefix, then nothing, a shell or SQL operator or a part of one,
\* then a suffix
S_host_db == S_postgres \o <<":", "/", "/", "h", "/", "a">>
UrlPrefixes == {S_host_db, S_host_db \o <<"?", "x", "=">>, URL_A, <<"x">>}
UrlInserts ==
    {<<>>, <<";", " ">>, <<";", "x">>, <<";", " ", "x">>, <<";", " ", "/">>,
     <<"$", "(">>, <<Backtick>>, <<"|", "|">>, <<"&", "&">>, <<"|">>, <<"&">>, <<"$">>}
UrlSuffixes == {<<>>, <<"b">>, <<" ">>}
Urls == {p \o i \o s : p \in UrlPrefixes, i \in UrlInserts, s \in UrlSuffixes}

\* URLs for redact_url: a scheme part, credentials or none, a host part and
\* the rest; some passwords occur again in the host, the scheme or the text
\* the function appends.  No URL here has a ';', so that the params component
\* of urlparse is empty.
RedactSchemes ==
    {<<"p", "o", "s", "t", "g", "r", "e", "s", ":", "/", "/">>,
     <<"P", "O", "S", "T", "G", "R", "E", "S", ":", "/", "/">>, <<"/", "/">>,
     <<"p", "o", "s", "t", "g", "r", "e", "s", ":">>,
     <<"h", "t", "t", "p", ":", "/", "/">>}
RedactUserinfos ==
    {<<>>, <<"u", "@">>, <<"u", ":", "p", "@">>, <<":", "p", "@">>, <<"u", ":", "@">>,
     <<":", "@">>, <<"u", ":", "p", "@", "s", "s", "@">>, <<"u", ":", "h", "@">>,
     <<"p", "o", "s", "t", "g", "r", "e", "s", ":", "p", "o", "s", "t", "g", "r", "e", "s", "@">>,
     <<"u", ":", "r", "e", "d", "a", "c", "t", "e", "d", "@">>,
     <<"u", ":", "s", "3", "c", "r", "3", "t", "@">>}
RedactHosts ==
    {<<"h">>, <<"H">>, <<"h", ":", "5">>, <<"h", ":", "0", "5">>, <<"h", ":", "x">>,
     <<"h", ":", "0">>, <<>>, <<"[", ":", ":", "1">>,
     <<"[", ":", ":", "1", "]", ":", "5">>}
RedactRests ==
    {<<>>, <<"/", "a">>, <<"/", "p", "?", "x", "=", "1", "#", "f">>, <<"?", "p">>}
RedactUrls ==
    {<<>>, <<" ">> \o URL_A}
    \cup {s \o u \o h \o r : s \in RedactSchemes, u \in RedactUserinfos,
                              h \in RedactHosts, r \in RedactRests}

\* a call choose_instance_type(estimated_size_bytes)
ChooseInstanceType ==
    /\ call = NoCall
    /\ \E size \in Sizes :
          call' = [fn |-> "choose_instance_type", arg |-> size,
                   result |-> choose_instance_type(size)]
    /\ UNCHANGED <<env, shared, uuid_counter, requests, api_key_cache, pc, local,
                   calls, returned, retry>>

\* a call validate_job_spec(body)
ValidateJobSpec ==
    /\ call = NoCall
    /\ \E body \in JobSpecs :
          call' = [fn |-> "validate_job_spec", arg |-> body,
                   result |-> validate_job_spec(body)]
    /\ UNCHANGED <<env, shared, uuid_counter, requests, api_key_cache, pc, local,
                   calls, returned, retry>>

\* provision_worker(job_id, options) up to its call of retry_with_backoff:
\* the run_instances request it has built
LaunchRequest ==
    /\ call = NoCall
    /\ \E job_id \in 1 .. NumProcs, options \in ProvisionOptions :
          call' = [fn |-> "provision_worker", job_id |-> job_id, options |-> options,
                   result |-> launch_instance(job_id, options)]
    /\ UNCHANGED <<env, shared, uuid_counter, requests, api_key_cache, pc, local,
                   calls, returned, retry>>

\* a call validate_postgresql_url(url)
ValidateUrl ==
    /\ call = NoCall
    /\ \E url \in Urls :
          call' = [fn |-> "validate_postgresql_url", arg |-> url,
                   result |-> validate_postgresql_url(url)]
    /\ UNCHANGED <<env, shared, uuid_counter, requests, api_key_cache, pc, local,
                   calls, returned, retry>>

\* a call redact_url(url)
RedactUrl ==
    /\ call = NoCall
    /\ \E url \in RedactUrls :
          call' = [fn |-> "redact_url", arg |-> url, result |-> redact_url(url)]
    /\ UNCHANGED <<env, shared, uuid_counter, requests, api_key_cache, pc, local,
                   calls, returned, retry>>

InitPure == InitRetry

NextPure ==
    \/ ChooseInstanceType
    \/ ValidateJobSpec
    \/ LaunchRequest
    \/ ValidateUrl
    \/ RedactUrl

SpecPure == InitPure /\ [][NextPure]_vars

(***************************************************************************)
(* Properties of the submission pipeline.                                  *)
(***************************************************************************)
\* a submission has just returned
Returned == returned.proc # 0
\* the job_id the returned submission generated, 0 if it generated none
ReturnedJob == IF "job_id" \in DOMAIN returned.local THEN returned.local.job_id ELSE 0
Enqueued(job_id) == \E m \in queue : m.job_id = job_id

\* C1: when the job record has been persisted and the enqueue of the hand-off
\* message then fails, the submission returns 500 and leaves the job record in
\* status failed with a non-empty error field.
C1_EnqueueFailureMarksFailed ==
    (Returned /\ {"put_ok", "send_failed"} \subseteq returned.calls) =>
        /\ Status(returned.response) = 500
        /\ ReturnedJob \in DOMAIN table
        /\ table[ReturnedJob].status = "failed"
        /\ "error" \in DOMAIN table[ReturnedJob]
        /\ table[ReturnedJob].error # ""

\* C2: after any completed submission, whatever collaborators failed, the job
\* record it created is not in status provisioning unless a hand-off message
\* for its job_id has been enqueued.
C2_NoOrphanInProvisioning ==
    (Returned /\ ReturnedJob \in DOMAIN table
        /\ table[ReturnedJob].status = "provisioning") => Enqueued(ReturnedJob)

\* C3: every enqueued hand-off message has exactly the fields job_id, trace_id
\* and options; the ids are generated ids, the options are a dict of the
\* allowed option keys whose values are no strings, so no message carries a
\* connection URL, in plaintext or as ciphertext.
C3_MessageCarriesNoUrl ==
    \A m \in queue :
        /\ DOMAIN m = {"job_id", "trace_id", "options"}
        /\ m.job_id \in 1 .. uuid_counter
        /\ m.trace_id \in 1 .. uuid_counter
        /\ m.options.t = "dict"
        /\ \A k \in DOMAIN m.options.v :
              /\ k \in allowed_option_keys
              /\ m.options.v[k].t \in {"bool", "num"}

\* a message with options has been enqueued
C3_Witness == \E m \in queue : m.options.keys # <<>>

\* what the encryption service returns for the plaintext URLs of the requests
Ciphertexts == { <<"base64", "CiphertextBlob", env.KMS_KEY_ID>> \o u : u \in PlaintextUrls }

\* C4: in every job record the source and target URL fields are outputs of
\* the encryption service under the configured key, no text field of the
\* record is a plaintext URL, and the record of a submission in flight holds
\* the encryption of that submission's own URLs.
C4_UrlsStoredEncrypted ==
    /\ \A j \in DOMAIN table :
          /\ table[j].source_url_encrypted \in Ciphertexts
          /\ table[j].target_url_encrypted \in Ciphertexts
          /\ \A f \in {"schema_version", "command", "source_url_encrypted",
                       "target_url_encrypted"} : table[j][f] \notin PlaintextUrls
          /\ \A k \in DOMAIN table[j].options.v : table[j].options.v[k].t # "str"
          /\ DOMAIN table[j] \cap {"source_url", "target_url"} = {}
    /\ \A p \in Procs :
          pc[p] \in {"send", "update"} =>
              /\ local[p].job_id \in DOMAIN table
              /\ table[local[p].job_id].source_url_encrypted
                    = <<"base64", "CiphertextBlob", env.KMS_KEY_ID>>
                      \o local[p].body.v["source_url"].s
              /\ table[local[p].job_id].target_url_encrypted
                    = <<"base64", "CiphertextBlob", env.KMS_KEY_ID>>
                      \o local[p].body.v["target_url"].s

\* a record has just been written for a submission still in flight
C4_Witness ==
    \E p \in Procs : pc[p] = "send" /\ local[p].job_id \in DOMAIN table
                     /\ local[p].body.v["source_url"].s = URL_C

\* no submission in flight has read a count at or above the ceiling
C5_AdmittedBelowCeiling ==
    \A p \in Procs :
        pc[p] # "idle" => local[p].active_jobs < env.MAX_CONCURRENT_JOBS

\* a submission that read a count at or above the ceiling returns 429 in the
\* step that read it, and that step writes no record, enqueues no message and
\* generates no id
C5_RejectionStep ==
    \A p \in Procs :
        (/\ pc[p] = "idle"
         /\ returned'.proc = p
         /\ "active_jobs" \in DOMAIN returned'.local
         /\ returned'.local.active_jobs >= env.MAX_CONCURRENT_JOBS)
        => /\ Status(returned'.response) = 429
           /\ table' = table
           /\ queue' = queue
           /\ uuid_counter' = uuid_counter

\* C5: if the active count read by the admission check is at or above the
\* ceiling, the submission returns 429, creates no job record and enqueues no
\* hand-off message.
C5_RateLimitRejects == [] C5_AdmittedBelowCeiling /\ [][C5_RejectionStep]_vars

\* a scan that succeeded and counted exactly the ceiling was answered 429
C5_Witness ==
    /\ Returned
    /\ Status(returned.response) = 429
    /\ "scan_ok" \in returned.calls
    /\ env.MAX_CONCURRENT_JOBS >= 1
    /\ returned.local.active_jobs = env.MAX_CONCURRENT_JOBS
    /\ ScanCount = env.MAX_CONCURRENT_JOBS

\* C6: if the encryption of the source or of the target URL fails, the
\* submission returns 500, no job record exists for its job_id and no hand-off
\* message for it is enqueued, also when the source URL was encrypted before
\* the target failed.
C6_EncryptionFailureCreatesNothing ==
    (Returned /\ returned.calls \cap {"encrypt_source_failed", "encrypt_target_failed"} # {})
    => /\ Status(returned.response) = 500
       /\ ReturnedJob # 0
       /\ ReturnedJob \notin DOMAIN table
       /\ ~Enqueued(ReturnedJob)

\* the target encryption failed after the source encryption had succeeded
C6_Witness ==
    /\ Returned
    /\ {"encrypt_source_ok", "encrypt_target_failed"} \subseteq returned.calls

\* C7: when the scan for the active count fails, the count is zero, and for a
\* ceiling of at least 1 the submission is not answered 429 but goes on to
\* parsing and validation, whatever the number of active jobs in the table.
C7_FailOpen ==
    /\ \A p \in Procs :
          (pc[p] # "idle" /\ "scan_failed" \in calls[p]) =>
              /\ local[p].active_jobs = 0
              /\ "parsed" \in calls[p]
    /\ (Returned /\ "scan_failed" \in returned.calls) =>
          /\ "active_jobs" \in DOMAIN returned.local => returned.local.active_jobs = 0
          /\ env.MAX_CONCURRENT_JOBS >= 1 =>
                /\ Status(returned.response) # 429
                /\ "parsed" \in returned.calls

\* a submission was admitted on a failed scan while the table was full
C7_Witness ==
    \E p \in Procs :
        /\ pc[p] = "put"
        /\ "scan_failed" \in calls[p]
        /\ env.MAX_CONCURRENT_JOBS >= 1
        /\ ScanCount >= env.MAX_CONCURRENT_JOBS

\* C8: a submission whose scan succeeds and counts ceiling - 1 while another
\* submission, admitted on the same count, has not yet persisted its record,
\* reads ceiling - 1 as well and is not answered 429.
C8_AdvisoryAdmission ==
    \A p, q \in Procs :
        (/\ p # q
         /\ returned.proc = p
         /\ "scan_ok" \in returned.calls
         /\ "active_jobs" \in DOMAIN returned.local
         /\ pc[q] = "put"
         /\ "scan_ok" \in calls[q]
         /\ local[q].active_jobs = env.MAX_CONCURRENT_JOBS - 1
         /\ ScanCount = env.MAX_CONCURRENT_JOBS - 1)
        => /\ returned.local.active_jobs = env.MAX_CONCURRENT_JOBS - 1
           /\ Status(returned.response) # 429

\* two submissions admitted on successful scans of ceiling - 1 have both
\* persisted their records: more jobs are active than the ceiling allows
C8_Witness ==
    \E p, q \in Procs :
        /\ p # q
        /\ pc[p] = "send" /\ pc[q] = "send"
        /\ "scan_ok" \in calls[p] /\ "scan_ok" \in calls[q]
        /\ local[p].active_jobs = env.MAX_CONCURRENT_JOBS - 1
        /\ local[q].active_jobs = env.MAX_CONCURRENT_JOBS - 1
        /\ ScanCount > env.MAX_CONCURRENT_JOBS

\* C12: when the enqueue succeeds and the emission of the JobSubmitted metric
\* fails, the submission still returns 201 with the job's ids, the job record
\* is in status provisioning with its message enqueued, and the compensating
\* update is not called.
C12_MetricFailureSwallowed ==
    (Returned /\ "metric_failed" \in returned.calls) =>
        /\ returned.response
              = Response(201, [job_id |-> ReturnedJob,
                               trace_id |-> table[ReturnedJob].trace_id,
                               status |-> "provisioning"])
        /\ table[ReturnedJob].status = "provisioning"
        /\ "error" \notin DOMAIN table[ReturnedJob]
        /\ Enqueued(ReturnedJob)
        /\ returned.calls \cap {"update_ok", "update_failed"} = {}

\* a submission has returned after a failed metric emission
C12_Witness ==
    /\ Returned
    /\ {"send_ok", "metric_failed"} \subseteq returned.calls
    /\ JobSubmitted([body |-> PlainSpec]) \notin DOMAIN metrics

\* C13: a request whose x-api-key header is missing or differs from the
\* stored key, whatever its method and path, is answered 401 "Unauthorized",
\* and no scan, store access, encryption or enqueue is made for it.
C13_BadKeyAnswered401 ==
    (/\ Returned
     /\ "x_api_key" \in DOMAIN returned.local
     /\ returned.local.x_api_key # StoredApiKey)
    => /\ returned.response = Error(401, "Unauthorized")
       /\ returned.calls \subseteq {"ssm_ok"}

ViewFields ==
    {"job_id", "trace_id", "status", "created_at", "started_at", "completed_at",
     "error", "progress", "log_url"}
CredentialFields == {"source_url_encrypted", "target_url_encrypted"}
\* the item without its encrypted credentials
WithoutCredentials(item) == [k \in DOMAIN item \ CredentialFields |-> item[k]]

\* C14: for every job record, in whatever status and with whatever fields,
\* the status view has only fields among job_id, trace_id, status, created_at,
\* started_at, completed_at, error, progress and log_url, and it is the view
\* of the record without its encrypted credentials: no part of it comes from
\* them.  Every 200 response carries such a view.
C14_ViewOmitsCredentials ==
    /\ \A j \in DOMAIN table :
          /\ DOMAIN job_status(table[j]) \subseteq ViewFields
          /\ job_status(table[j]) = job_status(WithoutCredentials(table[j]))
    /\ (Returned /\ Status(returned.response) = 200) =>
          /\ DOMAIN returned.response.body \subseteq ViewFields
          /\ \E j \in DOMAIN table :
                returned.response.body = job_status(WithoutCredentials(table[j]))

\* the status of a running job, whose record holds both encrypted
\* credentials, has been returned with its progress and log URL
C14_Witness ==
    /\ Returned
    /\ Status(returned.response) = 200
    /\ {"progress", "log_url"} \subseteq DOMAIN returned.response.body
    /\ \E j \in DOMAIN table :
          /\ returned.response.body.job_id = [S |-> j]
          /\ CredentialFields \subseteq DOMAIN table[j]

\* the step is container p entering lambda_handler
Enters(p) == pc[p] = "idle" /\ (pc'[p] # "idle" \/ returned'.proc = p)

\* the collaborator calls container p has made in the request it serves, or
\* has just answered, after the step
CallsAfter(p) == IF pc'[p] # "idle" THEN calls'[p] ELSE returned'.calls

\* C16: once a container holds the API key in _api_key_cache, no step changes
\* the cached value, and a request entering lambda_handler on that container
\* makes no ssm.get_parameter call, successful or failed.
C16_KeyLoadedOnce ==
    [][\A p \in Procs :
          api_key_cache[p] # "None" =>
              /\ api_key_cache'[p] = api_key_cache[p]
              /\ Enters(p) => CallsAfter(p) \cap {"ssm_ok", "ssm_failed"} = {}]_vars

\* an authenticated request was answered by a container that made no fetch
\* for it: its cache was loaded by an earlier request
C16_Witness ==
    /\ returned.proc \in Procs
    /\ Status(returned.response) \in {200, 201, 404}
    /\ api_key_cache[returned.proc] = StoredApiKey
    /\ "ssm_ok" \notin returned.calls

(***************************************************************************)
(* Properties of retry_with_backoff.                                       *)
(***************************************************************************)
\* a failure outside the five transient error codes: another code, no code,
\* or an exception that is no ClientError
NonTransient(outcome) ==
    \/ outcome.kind = "Exception"
    \/ /\ outcome.kind = "ClientError"
       /\ outcome.code \notin {"RequestLimitExceeded", "InsufficientInstanceCapacity",
                               "InternalError", "ServiceUnavailable", "Throttling"}
Transient(outcome) == outcome.kind = "ClientError" /\ ~NonTransient(outcome)
Invocations == IF retry.pc = "idle" THEN <<>> ELSE retry.invocations

\* C9: a failure that is not transient is raised to the caller by the attempt
\* on which it occurs: it is the last invocation of func, and no delay follows
\* it (the only delays are those after the earlier, transient, failures).
C9_NonTransientRaisedAtOnce ==
    \A i \in 1 .. Len(Invocations) :
        NonTransient(Invocations[i]) =>
            /\ i = Len(Invocations)
            /\ retry.pc = "raised"
            /\ retry.raised = Raise(Invocations[i], i)
            /\ Len(retry.sleeps) = i - 1

\* the second of three allowed attempts failed with a ClientError that is not
\* transient
C9_Witness ==
    /\ Len(Invocations) = 2
    /\ retry.max_retries = 3
    /\ Invocations[2].kind = "ClientError"
    /\ NonTransient(Invocations[2])

C10_Bounded ==
    (retry.pc # "idle" /\ retry.max_retries >= 1) =>
        /\ Len(Invocations) <= retry.max_retries
        /\ retry.pc = "loop" => Len(Invocations) < retry.max_retries
        /\ \A i \in 1 .. Len(Invocations) :
              Invocations[i].kind = "return" =>
                  /\ i = Len(Invocations)
                  /\ retry.pc = "returned"
                  /\ retry.result = i
        /\ retry.pc = "returned" => Invocations[Len(Invocations)].kind = "return"
        /\ (retry.pc # "loop" /\ \A i \in 1 .. Len(Invocations) : Transient(Invocations[i])) =>
              /\ Len(Invocations) = retry.max_retries
              /\ retry.pc = "raised"
              /\ retry.raised = Raise(Invocations[retry.max_retries], retry.max_retries)
        /\ retry.caller = "provision_worker" => retry.max_retries = 3

\* C10: for max_retries >= 1 the loop ends after at most max_retries
\* invocations of func: a successful invocation is the last and its result is
\* returned; when every invocation fails with a transient error there are
\* exactly max_retries of them and the error of the last is raised;
\* provision_worker calls it with max_retries = 3.
C10_RetryTerminates ==
    /\ [] C10_Bounded
    /\ (retry.pc = "loop") ~> (retry.pc \in {"returned", "raised"})

\* provision_worker's three invocations all failed with transient errors and
\* the third error was raised
C10_Witness ==
    /\ retry.pc = "raised"
    /\ retry.caller = "provision_worker"
    /\ Len(Invocations) = 3
    /\ \A i \in 1 .. 3 : Transient(Invocations[i])
    /\ retry.raised.invocation = 3

RECURSIVE Pow2(_)
Pow2(n) == IF n = 0 THEN 1 ELSE 2 * Pow2(n - 1)

\* the invocations so far that failed with a transient error
TransientFailures == { i \in 1 .. Len(Invocations) : Transient(Invocations[i]) }

\* C11: the delay after the k-th transient failure is initial_delay * 2^(k-1);
\* a delay follows every transient failure but that of the last allowed
\* attempt, so there are at most max_retries - 1 delays; provision_worker
\* (3 attempts, initial delay 2) sleeps 2, then 4.
C11_ExponentialDelays ==
    (retry.pc # "idle" /\ retry.max_retries >= 1) =>
        /\ \A k \in 1 .. Len(retry.sleeps) :
              retry.sleeps[k] = retry.initial_delay * Pow2(k - 1)
        /\ Len(retry.sleeps) <= retry.max_retries - 1
        /\ Len(retry.sleeps) = Cardinality(TransientFailures \ {retry.max_retries})
        /\ (retry.caller = "provision_worker" /\ Cardinality(TransientFailures) = 3) =>
              retry.sleeps = <<2, 4>>

\* provision_worker's three attempts have failed with transient errors
C11_Witness ==
    /\ retry.pc = "raised"
    /\ retry.caller = "provision_worker"
    /\ Cardinality(TransientFailures) = 3
    /\ Len(retry.sleeps) = 2

(***************************************************************************)
(* Properties of provision_worker and choose_instance_type.                *)
(***************************************************************************)
Provisioning == retry.pc # "idle" /\ retry.caller = "provision_worker"

\* C15: the startup payload (UserData) of the run_instances request that
\* provision_worker sends, at every invocation of its retry loop, is the
\* worker script with the job id as its only argument, whatever the options
\* are: no options entry, and so no connection URL, is part of it.
C15_PayloadCarriesOnlyJobId ==
    Provisioning =>
        /\ DOMAIN retry.request.UserData = {"script", "args"}
        /\ retry.request.UserData.script = "/opt/seren-replicator/worker.sh"
        /\ retry.request.UserData.args = <<retry.job_id>>

\* a create-instance call was made for a job whose options carry a URL
C15_Witness ==
    /\ Provisioning
    /\ Len(retry.invocations) >= 2
    /\ Has(retry.options, "source_url")
    /\ retry.options.v.source_url.s \in PlaintextUrls

\* the instance types in the order of their capability, and the boundaries in GiB
Rank(instance_type_) ==
    CASE instance_type_ = "t3.medium" -> 1
      [] instance_type_ = "c5.large" -> 2
      [] instance_type_ = "c5.2xlarge" -> 3
      [] instance_type_ = "c5.4xlarge" -> 4
Boundaries == {10, 100, 1024}
\* a <= b, and s >= n GiB, for sizes kept as gib and rem
SizeLeq(a, b) == a.gib < b.gib \/ (a.gib = b.gib /\ a.rem <= b.rem)
AtLeastGiB(s, n) == s.gib >= n
Chosen == call.fn = "choose_instance_type"

Requested == call.fn = "provision_worker"
NoSizeHint ==
    \/ ~Has(call.options, "estimated_size_bytes")
    \/ call.options.v.estimated_size_bytes = ZeroBytes

\* C18 as stated: choose_instance_type(0) is the configured default type, and
\* provision_worker requests the default type when the options lack the size
\* hint or carry a hint of 0.
C18_ZeroYieldsDefault ==
    /\ Chosen /\ call.arg = ZeroBytes => call.result = env.WORKER_INSTANCE_TYPE
    /\ Requested /\ NoSizeHint => call.result.InstanceType = env.WORKER_INSTANCE_TYPE

\* C18, amended: provision_worker requests the configured default type when
\* the options lack the size hint or carry a hint of 0, whatever the smallest
\* band's type is; choose_instance_type(0) itself is the smallest band's type.
C18_ProvisionDefaultsOnZero ==
    /\ Chosen /\ call.arg = ZeroBytes => call.result = "t3.medium"
    /\ Requested /\ NoSizeHint => call.result.InstanceType = env.WORKER_INSTANCE_TYPE

\* a request was built from options carrying a size hint of 0, and asks for
\* the default type, which is not the smallest band's
C18_Witness ==
    /\ Requested
    /\ Has(call.options, "estimated_size_bytes")
    /\ call.options.v.estimated_size_bytes = ZeroBytes
    /\ call.result.InstanceType = env.WORKER_INSTANCE_TYPE
    /\ call.result.InstanceType # choose_instance_type(ZeroBytes)

(***************************************************************************)
(* Properties of validate_job_spec.                                        *)
(***************************************************************************)
Validated == call.fn = "validate_job_spec"
NeededFields == <<"schema_version", "command", "source_url", "target_url">>
MissingFields(body) == {i \in 1 .. 4 : ~Has(body, NeededFields[i])}
NamesMissing(result, field) ==
    /\ ~result.is_valid
    /\ result.error = [msg |-> "Missing required field: ", field |-> field]

\* the checks of validate_job_spec, numbered in their order, each taken by
\* itself: the reason check k gives for rejecting the body, NoError if the
\* body does not violate it
IsStrField(body, field) == Has(body, field) /\ body.v[field].t = "str"
SizeReason(body) ==
    IF JsonSize(body) > MAX_JOB_SPEC_SIZE_BYTES
    THEN [msg |-> "Job spec too large: ", n |-> JsonSize(body)] ELSE NoError
SchemaVersionReason(body) ==
    IF ~Has(body, "schema_version") \/ ~Truthy(body.v.schema_version)
    THEN [msg |-> "Missing required field: ", field |-> "schema_version"]
    ELSE IF \/ body.v.schema_version.t # "str"
            \/ body.v.schema_version.s \notin SUPPORTED_SCHEMA_VERSIONS
    THEN [msg |-> "Unsupported schema version: ", json |-> body.v.schema_version]
    ELSE NoError
CommandReason(body) ==
    IF ~IsStrField(body, "command") THEN NoError
    ELSE IF Len(command_of(body)) > MAX_COMMAND_LENGTH
    THEN [msg |-> "Command too long: ", n |-> Len(command_of(body))]
    ELSE IF command_of(body) \notin ALLOWED_COMMANDS
    THEN [msg |-> "Invalid command: ", str |-> command_of(body)]
    ELSE NoError
UrlReason(body, field) ==
    IF IsStrField(body, field) THEN UrlFieldError(body, field) ELSE NoError
OptionsReason(body) ==
    IF ~Has(body, "options") THEN NoError
    ELSE IF body.v.options.t # "dict" THEN Msg("Field 'options' must be an object")
    ELSE FirstOptionError(body.v.options, body.v.options.keys)
FilterReason(body) ==
    IF Has(body, "filter") /\ body.v.filter.t # "dict"
    THEN Msg("Field 'filter' must be an object") ELSE NoError
Checks == 1 .. 10
Reason(k, body) ==
    CASE k = 1 -> SizeReason(body)
      [] k = 2 -> SchemaVersionReason(body)
      [] k \in 3 .. 5 -> RequiredFieldError(body, NeededFields[k - 1])
      [] k = 6 -> CommandReason(body)
      [] k = 7 -> UrlReason(body, "source_url")
      [] k = 8 -> UrlReason(body, "target_url")
      [] k = 9 -> OptionsReason(body)
      [] k = 10 -> FilterReason(body)
Violated(body) == {k \in Checks : Reason(k, body) # NoError}
Earliest(ks) == CHOOSE k \in ks : \A j \in ks : k <= j

\* C19 as stated: a job spec that lacks one of schema_version, command,
\* source_url, target_url is rejected with a reason naming a field it lacks.
C19_MissingFieldNamed ==
    Validated /\ MissingFields(call.arg) # {} =>
        \E i \in MissingFields(call.arg) : NamesMissing(call.result, NeededFields[i])

\* C19, amended: a job spec that lacks one of the four fields and violates no
\* check that validate_job_spec applies before it looks for that field is
\* rejected with the reason "Missing required field" naming that field.
C19_MissingFieldNamedWhenReached ==
    Validated =>
        \A i \in MissingFields(call.arg) :
            (\A k \in 1 .. i : Reason(k, call.arg) = NoError)
                => NamesMissing(call.result, NeededFields[i])

\* a spec with a command outside the allow-list and no source_url was
\* rejected for the missing source_url
C19_Witness ==
    /\ Validated
    /\ MissingFields(call.arg) = {3}
    /\ 6 \in Violated(call.arg)
    /\ NamesMissing(call.result, "source_url")

\* C20: validate_job_spec accepts a spec exactly when the spec violates none
\* of the checks size, schema_version, command, source_url and target_url as
\* required fields, command length and allow-list, source_url, target_url,
\* options, filter; it rejects any other spec with the reason of the first
\* check, in that order, that the spec violates.
C20_EarliestViolationReported ==
    Validated =>
        /\ call.result.is_valid <=> Violated(call.arg) = {}
        /\ Violated(call.arg) = {} => call.result = Ok
        /\ Violated(call.arg) # {} =>
              call.result = Rejected(Reason(Earliest(Violated(call.arg)), call.arg))

\* an oversized spec that also breaks four later rules was rejected for its size
C20_Witness ==
    /\ Validated
    /\ {1, 2, 6, 8, 10} \subseteq Violated(call.arg)
    /\ call.result.error.msg = "Job spec too large: "

\* options as the claim wants them: a mapping with keys from the allow-list,
\* booleans for drop_existing and enable_sync, and a number that is no
\* boolean and not negative for estimated_size_bytes
WellFormedOptions(options) ==
    /\ options.t = "dict"
    /\ DOMAIN options.v \subseteq {"drop_existing", "enable_sync", "estimated_size_bytes"}
    /\ \A k \in DOMAIN options.v \cap {"drop_existing", "enable_sync"} :
          options.v[k].t = "bool"
    /\ "estimated_size_bytes" \in DOMAIN options.v =>
          /\ options.v.estimated_size_bytes.t = "num"
          /\ options.v.estimated_size_bytes.n >= 0

\* C21: a spec whose options are present is rejected unless they are a
\* mapping whose keys are all in the allow-list, whose drop_existing and
\* enable_sync are booleans, and whose estimated_size_bytes is a number
\* (not a boolean, a string or null) that is not negative.
C21_OptionsChecked ==
    Validated /\ Has(call.arg, "options") /\ ~WellFormedOptions(call.arg.v.options)
        => ~call.result.is_valid

(***************************************************************************)
(* Properties of validate_postgresql_url and redact_url.                   *)
(***************************************************************************)
UrlChecked == call.fn = "validate_postgresql_url"
\* the substrings the claim lists
DangerousSubstrings ==
    {<<";", " ">>, <<"$", "(">>, <<Backtick>>, <<"|", "|">>, <<"&", "&">>}
HasDangerousSubstring(url) == \E d \in DangerousSubstrings : Contains(url, d)
SaysDangerous(result) ==
    /\ ~result.is_valid
    /\ result.error = Msg("URL contains potentially dangerous characters")

\* C22: a URL that contains a semicolon followed by a space, "$(", a
\* backtick, "||" or "&&" is rejected by validate_postgresql_url with the
\* reason "URL contains potentially dangerous characters".
C22_DangerousRejected ==
    UrlChecked /\ HasDangerousSubstring(call.arg) => SaysDangerous(call.result)

Redacted == call.fn = "redact_url"
\* the authority of a URL as it is written, and the credentials in it
RawNetloc(url) == NetlocOf(AfterScheme(RemoveUnsafe(lstripSpace(url))))
UsernameOf(url) == Before(UserInfo(RawNetloc(url)), {":"})
PasswordOf(url) == After(UserInfo(RawNetloc(url)), {":"})
HasCredentials(url) == UsernameOf(url) # <<>> \/ PasswordOf(url) # <<>>
EndsWith(s, suffix) ==
    Len(s) >= Len(suffix) /\ From(s, Len(s) - Len(suffix) + 1) = suffix
WithoutMarker(s) == Upto(s, Len(s) - Len(RedactedMarker))

\* C23 as stated: the output of redact_url for a URL with a password in its
\* authority does not contain that password, and the output for a URL
\* without credentials is the URL.
C23_PasswordAbsent ==
    Redacted =>
        /\ PasswordOf(call.arg) # <<>> => ~Contains(call.result, PasswordOf(call.arg))
        /\ ~HasCredentials(call.arg) => call.result = call.arg

\* C23, amended: the output of redact_url for a URL with credentials is the
\* placeholder "[invalid URL]" or a URL whose authority holds no credentials
\* part, followed by the marker " (credentials redacted)"; the output for a
\* URL without credentials that urlparse accepts is the URL.
C23_CredentialsCutOut ==
    Redacted =>
        /\ HasCredentials(call.arg) =>
              \/ call.result = InvalidUrlText
              \/ /\ EndsWith(call.result, RedactedMarker)
                 /\ Count(RawNetloc(WithoutMarker(call.result)), "@") = 0
        /\ ~HasCredentials(call.arg) /\ ~Raised(urlparse(call.arg)) =>
              call.result = call.arg

\* a URL with the password s3cr3t was rebuilt without it
C23_Witness ==
    /\ Redacted
    /\ PasswordOf(call.arg) = <<"s", "3", "c", "r", "3", "t">>
    /\ EndsWith(call.result, RedactedMarker)
    /\ ~Contains(call.result, PasswordOf(call.arg))

(***************************************************************************)
(* Properties of the admission gate and of the order of the steps of       *)
(* handle_submit_job.                                                      *)
(***************************************************************************)
InFlight == Cardinality({p \in Procs : pc[p] # "idle"})
ActiveJobs == {j \in DOMAIN table : table[j].status \in {"provisioning", "running"}}

\* C24: when no scan fails, a behaviour in which at most n submissions are
\* ever in flight together never has more than ceiling + n - 1 jobs in
\* provisioning or running, also while jobs start, finish and fail; with
\* n = 1, never more than the ceiling.
C24_BoundedOvershoot ==
    \A n \in 1 .. NumProcs :
        [](InFlight <= n) => [](Cardinality(ActiveJobs) <= env.MAX_CONCURRENT_JOBS + n - 1)

\* the bound is reached: with every container in flight at once, the ceiling
\* is exceeded by NumProcs - 1 jobs, and a later submission was turned away
C24_Witness ==
    /\ env.MAX_CONCURRENT_JOBS >= 1
    /\ Cardinality(ActiveJobs) = env.MAX_CONCURRENT_JOBS + NumProcs - 1
    /\ Status(returned.response) = 429

\* every message a step adds to the queue is for a job whose record is in
\* the table, in status provisioning, before the step
C25_EnqueueStep ==
    \A m \in queue' \ queue :
        /\ m.job_id \in DOMAIN table
        /\ table[m.job_id].status = "provisioning"

\* a submission whose put_item failed is answered 500, has no record and no
\* message, and made neither the send_message nor the put_metric call
C25_WriteFailure ==
    (Returned /\ "put_failed" \in returned.calls) =>
        /\ Status(returned.response) = 500
        /\ ReturnedJob \notin DOMAIN table
        /\ ~Enqueued(ReturnedJob)
        /\ returned.calls \cap {"send_ok", "send_failed", "metric_ok", "metric_failed"} = {}

\* the step in which put_item fails leaves the queue and the metrics alone
C25_WriteFailureStep ==
    "put_failed" \in returned'.calls => queue' = queue /\ metrics' = metrics

\* C25: a hand-off message for a job_id is enqueued only when a record with
\* that job_id has been persisted in status provisioning; if put_item fails,
\* the submission returns 500, enqueues no message and emits no metric.
C25_PersistBeforeEnqueue ==
    [][C25_EnqueueStep /\ C25_WriteFailureStep]_vars /\ []C25_WriteFailure

\* a put_item failed for one submission after another had been enqueued
C25_Witness ==
    /\ Returned
    /\ "put_failed" \in returned.calls
    /\ queue # {}

\* the submission answered in the last step, if a check stopped it: the
\* count it read and the raw body it carried
StoppedSubmission == Returned /\ "event_body" \in DOMAIN returned.local
ReadAtCeiling == returned.local.active_jobs >= env.MAX_CONCURRENT_JOBS
Malformed(raw) == ~raw.wellformed
InvalidSpec(raw) ==
    raw.wellformed /\ raw.value.t = "dict" /\ ~validate_job_spec(raw.value).is_valid

\* C26: a submission that reads an active count at or above the ceiling is
\* answered 429 before its body is parsed or validated, also when the body is
\* malformed JSON or an invalid job spec: it is not answered 400.
C26_GateBeforeParsing ==
    (/\ StoppedSubmission
     /\ ReadAtCeiling
     /\ Malformed(returned.local.event_body) \/ InvalidSpec(returned.local.event_body))
    => /\ Status(returned.response) = 429
       /\ returned.calls \cap {"parsed", "validated"} = {}

\* a malformed body was answered 429 by a full system
C26_Witness ==
    /\ StoppedSubmission
    /\ "scan_ok" \in returned.calls
    /\ env.MAX_CONCURRENT_JOBS >= 1
    /\ ReadAtCeiling
    /\ Malformed(returned.local.event_body)
    /\ Status(returned.response) = 429

\* an admitted submission whose spec fails validation
RejectedSpec ==
    /\ StoppedSubmission
    /\ ~ReadAtCeiling
    /\ InvalidSpec(returned.local.event_body)

\* the step that answers a submission stopped by a check, the validation
\* among them, changes neither the table, the queue, the metrics nor the ids
C27_RejectionStep ==
    (\E p \in Procs : /\ pc[p] = "idle"
                      /\ returned'.proc = p
                      /\ "event_body" \in DOMAIN returned'.local)
    => /\ table' = table
       /\ queue' = queue
       /\ metrics' = metrics
       /\ uuid_counter' = uuid_counter

\* it is answered 400 with the reason of validate_job_spec, and has made no
\* call after the validation
C27_RejectionAnswer ==
    RejectedSpec =>
        /\ returned.response
             = Response(400, [error |-> validate_job_spec(returned.local.event_body.value).error])
        /\ returned.calls \subseteq {"ssm_ok", "scan_ok", "scan_failed", "parsed", "validated"}

\* C27: when the admission gate passes and the spec fails validation, the
\* submission returns 400 with the validator's reason as its error, and
\* leaves the table and the queue unchanged: no encryption, no record, no
\* message, no metric.
C27_InvalidSpecRejected == [][C27_RejectionStep]_vars /\ []C27_RejectionAnswer

\* a spec without schema_version was rejected while a job was in the table
C27_Witness ==
    /\ RejectedSpec
    /\ returned.local.event_body.value = NoVersionSpec
    /\ Status(returned.response) = 400
    /\ DOMAIN table # {}

\* C28: the command of every job record that a submission has persisted is
\* one of init, validate, sync, status, verify, also when the request gave
\* the command in another letter case or with whitespace around it.
C28_StoredCommandAllowed ==
    \A j \in DOMAIN table :
        "command" \in DOMAIN table[j] => table[j].command \in ALLOWED_COMMANDS

=============================================================================
